---- MODULE Spec2Model ----
(***************************************************************************)
(* Model of the 4get client core: the TTL response cache (src/cache.py)    *)
(* and the request/retry pipeline (src/client.py).                         *)
(*                                                                         *)
(* Time is the monotonic clock in integer ticks.  The cache store is the   *)
(* Python dict `_entries`, kept as a sequence of records in the dict's     *)
(* iteration (insertion) order, because `min(...)` in _evict_one_locked    *)
(* breaks ties by that order.                                              *)
(*                                                                         *)
(* get, set and clear contain no suspension point: asyncio.Lock.acquire    *)
(* returns without yielding when the lock is free, and nothing is awaited  *)
(* while it is held.  Under the cooperative scheduler each of them         *)
(* therefore runs as one step, which is how the actions below take them.   *)
(***************************************************************************)
EXTENDS Integers, Sequences, FiniteSets, TLC

\* ---------------------------------------------------------------- bounds
NumKeys == 3
MaxTtl == 2
MaxSize == 2
MaxTime == 2
MaxRetries == 2
MaxSearches == 2
NumQueries == 2
MaxOptions == 2
MaxOps == 2
JitterSteps == 4

Keys == 1..NumKeys

\* The cache never inspects a value: two distinct ones tell a fresh value from a stale one.
Values == {1, 2}

VARIABLES
    ttl,        \* TTLCache._ttl
    maxsize,    \* TTLCache._maxsize
    entries,    \* TTLCache._entries, in dict order
    now,        \* time.monotonic()
    lastOp,     \* history: the last cache operation since the clock last moved, its
                \* arguments and result, the size of the store it ran on and the entry
                \* that store held for its key
    lastSet,    \* history: per key, the value and time of the most recent set(key)
                \* since the last clear, kept while that key is stored (and for the
                \* key of the last operation)
    run,        \* history: the distinct keys set, in order, since the store was last
                \* empty by construction or clear (valid = FALSE once that run is broken)
    max_retries,    \* Config.max_retries
    search,     \* per task: the search it runs (_search and _request's locals)
    searches,   \* the number of searches started
    call,       \* a helper function called on its own: its name, arguments and result
    lock,       \* TTLCache._lock: the task that holds it, 0 when it is free
    worker,     \* per operation called on the cache by concurrent tasks: its progress
    serial      \* history: the store as the operations completed so far leave it when
                \* run one after the other, whole, in the order they completed; what
                \* has been called; and the sets completed

cacheVars == <<ttl, maxsize, entries, now>>
histVars == <<lastOp, lastSet, run>>
clientVars == <<max_retries, search, searches>>
concVars == <<lock, worker, serial>>
vars ==
    <<ttl, maxsize, entries, now, lastOp, lastSet, run, max_retries, search, searches, call,
      lock, worker, serial>>

\* no helper function is called on its own
NoCall == [fn |-> "none"]

\* the tasks that run searches
Tasks == {1}

\* the cache keys of the requests the searches make
Queries == 1..NumQueries

\* ------------------------------------------------------------ cache.py
Max(a, b) == IF a >= b THEN a ELSE b

\* A result of get: None, or the stored value.
None == [some |-> FALSE]
Some(v) == [some |-> TRUE, value |-> v]

CacheEntry(k, v, e) == [key |-> k, value |-> v, expires_at |-> e]

\* mutant of expired: an entry still counts as fresh at the instant it expires
expiredLate(entry, current) == current > entry.expires_at

\* CacheEntry.expired
expired(entry, current) == current >= entry.expires_at

KeysOf(es) == {es[i].key : i \in 1..Len(es)}

\* dict.get(key): the index of key's entry, 0 when there is none
Lookup(es, k) ==
    IF k \in KeysOf(es) THEN CHOOSE i \in 1..Len(es) : es[i].key = k ELSE 0

\* dict.pop(key, None)
Pop(es, k) == SelectSeq(es, LAMBDA e : e.key # k)

\* mutant of Put: an existing key keeps the entry it has
PutIfAbsent(es, entry) == IF entry.key \in KeysOf(es) THEN es ELSE Append(es, entry)

\* dict[key] = entry: an existing key keeps its place, a new key goes last
Put(es, entry) ==
    IF entry.key \in KeysOf(es)
    THEN [i \in 1..Len(es) |-> IF es[i].key = entry.key THEN entry ELSE es[i]]
    ELSE Append(es, entry)

\* mutant of OldestKey: max instead of min
NewestKey(es) ==
    LET i == CHOOSE i \in 1..Len(es) :
                 /\ \A j \in 1..Len(es) : es[i].expires_at >= es[j].expires_at
                 /\ \A j \in 1..(i - 1) : es[j].expires_at < es[i].expires_at
    IN es[i].key

\* min(self._entries, key=expires_at): the first key of least expires_at
OldestKey(es) ==
    LET i == CHOOSE i \in 1..Len(es) :
                 /\ \A j \in 1..Len(es) : es[i].expires_at <= es[j].expires_at
                 /\ \A j \in 1..(i - 1) : es[j].expires_at > es[i].expires_at
    IN es[i].key

\* mutant of EvictOneLocked: the key written last is removed
EvictLast(es) == IF es = <<>> THEN es ELSE Pop(es, es[Len(es)].key)

\* TTLCache._evict_one_locked
EvictOneLocked(es) == IF es = <<>> THEN es ELSE Pop(es, OldestKey(es))

\* mutant of GetEntries: a hit renews the entry, as a least-recently-used cache does
GetEntriesTouch(es, k, t) ==
    LET i == Lookup(es, k)
    IN IF i = 0 THEN es
       ELSE IF expired(es[i], t) THEN Pop(es, k)
       ELSE Append(Pop(es, k), CacheEntry(k, es[i].value, t + ttl))

\* mutant of GetEntries: an expired entry is reported absent but left in the store
GetEntriesKeepExpired(es, k, t) == es

\* TTLCache.get: the store afterwards, and the result
GetEntries(es, k, t) ==
    LET i == Lookup(es, k)
    IN IF i = 0 THEN es
       ELSE IF expired(es[i], t) THEN Pop(es, k)
       ELSE es

\* mutant of GetResult: an expired entry's value is still returned
GetResultStale(es, k, t) ==
    LET i == Lookup(es, k)
    IN IF i = 0 THEN None ELSE Some(es[i].value)

\* TTLCache.get: the result
GetResult(es, k, t) ==
    LET i == Lookup(es, k)
    IN IF i = 0 THEN None
       ELSE IF expired(es[i], t) THEN None
       ELSE Some(es[i].value)

\* mutant of SetEntries: a key that is stored is overwritten without an eviction
SetEntriesOverwrite(es, k, v, t) ==
    IF ttl = 0 THEN es
    ELSE LET entry == CacheEntry(k, v, t + ttl)
             room == IF Len(es) >= maxsize /\ k \notin KeysOf(es)
                     THEN EvictOneLocked(es) ELSE es
         IN Put(room, entry)

\* mutant of SetEntries: the capacity test is > instead of >=
SetEntriesLateEvict(es, k, v, t) ==
    IF ttl = 0 THEN es
    ELSE LET entry == CacheEntry(k, v, t + ttl)
             room == IF Len(es) > maxsize THEN EvictOneLocked(es) ELSE es
         IN Put(room, entry)

\* mutant of SetEntries: the zero-TTL early return is missing
SetEntriesZeroTtl(es, k, v, t) ==
    LET entry == CacheEntry(k, v, t + ttl)
        room == IF Len(es) >= maxsize THEN EvictOneLocked(es) ELSE es
    IN Put(room, entry)

\* TTLCache.set: the store afterwards
SetEntries(es, k, v, t) ==
    IF ttl = 0 THEN es
    ELSE LET entry == CacheEntry(k, v, t + ttl)
             room == IF Len(es) >= maxsize THEN EvictOneLocked(es) ELSE es
         IN Put(room, entry)

\* mutant of ClearEntries: only the expired entries are dropped
ClearExpiredOnly(es) == SelectSeq(es, LAMBDA e : ~expired(e, now))

\* TTLCache.clear: the store afterwards
ClearEntries(es) == <<>>

NoEntry == [key |-> 0, value |-> 0, expires_at |-> 0]

NoOp == [op |-> "none", key |-> 0, value |-> 0, ret |-> None, size |-> 0, found |-> NoEntry]

\* history: operation `name` on key k with value v and result r, run on the current store
Op(name, k, v, r) ==
    [op |-> name, key |-> k, value |-> v, ret |-> r, size |-> Len(entries),
     found |-> IF k \in KeysOf(entries) THEN entries[Lookup(entries, k)] ELSE NoEntry]

NeverSet == [set |-> FALSE, value |-> 0, at |-> 0]

\* history: forget the sets of the keys that are no longer stored in es, but for `keep`.
\* A key whose set is forgotten has no entry, so nothing is lost: a get that returns a
\* value for it contradicts every claim stated over lastSet.
Forget(ls, es, keep) ==
    [k \in Keys |-> IF k \in KeysOf(es) \cup keep THEN ls[k] ELSE NeverSet]

Broken == [valid |-> FALSE, keys |-> <<>>]

\* TTLCache.__init__
CacheInit ==
    /\ \E ttl_seconds \in (-1)..MaxTtl : ttl = Max(ttl_seconds, 0)
    /\ \E size \in 0..MaxSize : maxsize = Max(1, size)
    /\ entries = <<>>
    /\ now = 0
    /\ lastOp = NoOp
    /\ lastSet = [k \in Keys |-> NeverSet]
    /\ run = [valid |-> TRUE, keys |-> <<>>]

\* A JSON object's field is absent, null, or holds a string; dict.get gives Python's
\* None for the first two.  "None" stands for Python's None.
DictGet(v) == IF v \in {"absent", "null"} THEN "None" ELSE v

\* Python's truth value of what dict.get returned: None and '' are false
Truthy(v) == v \notin {"None", ""}

\* Python's `a or b`
Or(a, b) == IF Truthy(a) THEN a ELSE b

NoBody ==
    [json |-> "none", status |-> "none", doc |-> 0,
     message |-> "absent", error |-> "absent", detail |-> "absent"]

\* the attributes of a raised error, where the code sets them: FourGetAPIError's
\* status and message, and the text str() gives, as the pieces it is formatted from
NoArgs == [status |-> "None", message |-> "None", text |-> <<>>]

\* history, kept until the task's next search starts: the task's previous search, if
\* it returned: its key, the document it returned, when the cache entry holding that
\* document was set, and its HTTP calls
NoPrev ==
    [set |-> FALSE, failed |-> FALSE, key |-> 0, value |-> NoBody, at |-> 0, calls |-> 0]

\* a task that runs no search.  got, got429, gotNet and last are history: how many
\* GETs have ended, how many of them in status 429 and how many in a connection
\* failure or timeout, and what the last one ended in; at is when the document the
\* search returned was put in the cache; old is the document the task's previous search
\* returned for the same key, when the search began after the cache entry of that
\* document had expired, and delay_of the attempt whose backoff delay the last sleep
\* was given.  clients is the number of httpx.AsyncClient instances the search has
\* created, and open whether one of them is open.
Idle ==
    [pc |-> "idle", key |-> 0, hit |-> FALSE, attempt |-> 0, calls |-> 0, sleeps |-> 0,
     last_exception |-> "None", outcome |-> "none", value |-> NoBody, error |-> "None",
     args |-> NoArgs, fell |-> FALSE, got |-> 0, got429 |-> 0, gotNet |-> 0,
     last |-> [kind |-> "none", code |-> 0, body |-> NoBody],
     at |-> 0, prev |-> NoPrev, old |-> NoBody, delay_of |-> -1,
     clients |-> 0, open |-> FALSE]


\* The operations called on one cache by concurrent tasks, numbered in the order they
\* are called.  Each is run by a task: one of its own, or one that has completed its
\* earlier operations; the cache cannot tell, so any number of tasks is covered.
Workers == 1..MaxOps

\* an operation that is not called yet, or is completed.  t0 is when set read the
\* clock; entry is get's local `entry`.
Resting ==
    [pc |-> "idle", op |-> "none", key |-> 0, value |-> 0, t0 |-> 0, entry |-> NoEntry]

\* ret is what the operation completed last returned, want what it returns when run
\* whole on the serial store
NoSerial ==
    [entries |-> <<>>, ops |-> 0, plain |-> TRUE, started |-> {},
     sets |-> [k \in Queries |-> [done |-> FALSE, value |-> 0, expires_at |-> 0]],
     ret |-> None, want |-> None]

\* the cache's lock is free and no operation is under way
NoWorkers ==
    /\ lock = 0
    /\ worker = [t \in Workers |-> Resting]
    /\ serial = NoSerial

\* a cache used on its own: no client runs
Init ==
    /\ CacheInit
    /\ max_retries = 0
    /\ search = [t \in Tasks |-> Idle]
    /\ searches = 0
    /\ call = NoCall
    /\ NoWorkers

Get(k) ==
    /\ entries' = GetEntries(entries, k, now)
    /\ lastOp' = Op("get", k, 0, GetResult(entries, k, now))
    /\ lastSet' = Forget(lastSet, entries', {k})
    /\ run' = IF entries' # entries THEN Broken ELSE run
    /\ UNCHANGED <<ttl, maxsize, now>>
    /\ UNCHANGED <<clientVars, call, concVars>>

Set(k, v) ==
    /\ entries' = SetEntries(entries, k, v, now)
    /\ lastOp' = Op("set", k, v, None)
    /\ lastSet' = Forget([lastSet EXCEPT ![k] = [set |-> TRUE, value |-> v, at |-> now]],
                         entries', {k})
    /\ run' = IF run.valid /\ k \notin {run.keys[i] : i \in 1..Len(run.keys)}
                 /\ Len(run.keys) <= maxsize
              THEN [run EXCEPT !.keys = Append(@, k)]
              ELSE Broken
    /\ UNCHANGED <<ttl, maxsize, now>>
    /\ UNCHANGED <<clientVars, call, concVars>>

Clear ==
    /\ entries' = ClearEntries(entries)
    /\ lastOp' = Op("clear", 0, 0, None)
    /\ lastSet' = [k \in Keys |-> NeverSet]
    /\ run' = [valid |-> TRUE, keys |-> <<>>]
    /\ UNCHANGED <<ttl, maxsize, now>>
    /\ UNCHANGED <<clientVars, call, concVars>>

\* the monotonic clock advances between operations
Tick ==
    /\ now < MaxTime
    /\ now' = now + 1
    /\ lastOp' = NoOp
    /\ UNCHANGED <<ttl, maxsize, entries, lastSet, run>>
    /\ UNCHANGED <<clientVars, call, concVars>>

Next ==
    \/ \E k \in Keys : Get(k)
    \/ \E k \in Keys, v \in Values : Set(k, v)
    \/ Clear
    \/ Tick

Spec == Init /\ [][Next]_vars

\* ----------------------------------------------------------- client.py
\* One search is _search: a cache lookup, on a miss _request's retry loop, and on
\* success a cache store.  A task runs from one suspension point to the next in one
\* step; the suspension points are the GET in flight, the backoff sleep and the exit
\* of the `async with` block before the payload is cached.  Searches follow one
\* another on the same client and cache, MaxSearches of them at most.
\* What one HTTP attempt can end in: a response with a status code and a body, or one
\* of httpx's exceptions.  A body is invalid JSON, a JSON value that is no object, or
\* an object with or without a `status` field.
\* Of the objects that report a failure, the searches meet one with a message and one
\* without.
Bodies ==
    {[NoBody EXCEPT !.json = "invalid"],
     [NoBody EXCEPT !.json = "array"],
     [NoBody EXCEPT !.json = "object", !.status = "absent"],
     [NoBody EXCEPT !.json = "object", !.status = "null"]}
    \cup {[NoBody EXCEPT !.json = "object", !.status = "error", !.message = m] :
             m \in {"absent", "X"}}
    \cup {[NoBody EXCEPT !.json = "object", !.status = "ok", !.doc = v] : v \in Values}

Responses ==
    {[kind |-> "response", code |-> 200, body |-> b] : b \in Bodies}
    \cup {[kind |-> "response", code |-> c, body |-> NoBody] : c \in {404, 429}}
    \cup {[kind |-> x, code |-> 0, body |-> NoBody] :
            x \in {"ConnectError", "TimeoutException", "HTTPError"}}

\* httpx.Response.is_success, as raise_for_status reads it
IsSuccess(r) == r.kind = "response" /\ r.code >= 200 /\ r.code <= 299

\* the search ends: it returns v, or raises e
Return(s, v) == [s EXCEPT !.pc = "done", !.outcome = "returned", !.value = v]
Raise(s, e) == [s EXCEPT !.pc = "done", !.outcome = "raised", !.error = e]

\* mutant of ApiMessage: the first of the three fields that is not None
ApiMessageFirstNonNull(data) ==
    IF DictGet(data.message) # "None" THEN DictGet(data.message)
    ELSE IF DictGet(data.error) # "None" THEN DictGet(data.error)
    ELSE DictGet(data.detail)

\* _request: data.get('message') or data.get('error') or data.get('detail')
ApiMessage(data) == Or(Or(DictGet(data.message), DictGet(data.error)), DictGet(data.detail))

\* mutant of FourGetAPIError: the message is left out of the text
FourGetAPIErrorBare(status, message) ==
    [status |-> status, message |-> message, text |-> <<"status=", status>>]

\* FourGetAPIError.__init__: the attributes, and the text given to Exception
FourGetAPIError(status, message) ==
    [status |-> status, message |-> message,
     text |-> IF Truthy(message) THEN <<"status=", status, ": ", message>>
              ELSE <<"status=", status>>]

\* raise FourGetAPIError(api_status, message)
RaiseAPI(s, data) ==
    [Raise(s, "FourGetAPIError") EXCEPT
        !.args = FourGetAPIError(DictGet(data.status), ApiMessage(data))]

\* mutant of LoopHead: range(max_retries) instead of range(max_retries + 1)
LoopHeadShort(s, a) ==
    IF a < max_retries
    THEN [s EXCEPT !.pc = "inflight", !.attempt = a, !.calls = @ + 1,
                   !.clients = @ + 1, !.open = TRUE]
    ELSE [Raise(s, IF s.last_exception # "None" THEN s.last_exception
                   ELSE "FourGetError") EXCEPT !.fell = TRUE]

\* _request: the head of `for attempt in range(max_retries + 1)`, entered with the
\* next attempt a.  Inside the range the attempt's GET is issued; past it the loop is
\* left and the lines after it raise.
LoopHead(s, a) ==
    IF a < max_retries + 1
    THEN [s EXCEPT !.pc = "inflight", !.attempt = a, !.calls = @ + 1,
                   !.clients = @ + 1, !.open = TRUE]
    ELSE [Raise(s, IF s.last_exception # "None" THEN s.last_exception
                   ELSE "FourGetError") EXCEPT !.fell = TRUE]

\* mutant of Retry: the failure is raised while one more attempt is allowed
RetryGivesUp(s, e) ==
    IF s.attempt + 1 < max_retries
    THEN [s EXCEPT !.last_exception = e, !.pc = "sleep", !.delay_of = s.attempt]
    ELSE Raise([s EXCEPT !.last_exception = e], e)

\* mutant of Retry: the task sleeps after the last allowed attempt as well
RetryAlwaysSleeps(s, e) ==
    [s EXCEPT !.last_exception = e, !.pc = "sleep", !.delay_of = s.attempt]

\* mutant of Retry: the error of the first failed attempt is kept and raised
RetryKeepsFirst(s, e) ==
    LET kept == IF s.last_exception # "None" THEN s.last_exception ELSE e
    IN IF s.attempt < max_retries
       THEN [s EXCEPT !.last_exception = kept, !.pc = "sleep", !.delay_of = s.attempt]
       ELSE Raise([s EXCEPT !.last_exception = kept], kept)

\* a retryable failure: remember the error e; sleep and retry if attempts remain
Retry(s, e) ==
    IF s.attempt < max_retries
    THEN [s EXCEPT !.last_exception = e, !.pc = "sleep", !.delay_of = s.attempt]
    ELSE Raise([s EXCEPT !.last_exception = e], e)

\* mutant of Classify: every HTTP status error is retried like 429
ClassifyRetryStatus(s, r) ==
    IF r.kind = "response" /\ ~IsSuccess(r)
    THEN IF r.code = 429 THEN Retry(s, "FourGetAuthError")
         ELSE Retry(s, "FourGetTransportError")
    ELSE IF r.kind \in {"ConnectError", "TimeoutException"}
    THEN Retry(s, "FourGetTransportError")
    ELSE IF r.kind = "HTTPError" THEN Raise(s, "FourGetTransportError")
    ELSE IF r.body.json = "invalid" THEN Raise(s, "FourGetTransportError")
    ELSE IF r.body.json # "object" THEN Raise(s, "AttributeError")
    ELSE IF DictGet(r.body.status) = "None" THEN Raise(s, "FourGetError")
    ELSE IF DictGet(r.body.status) # "ok" THEN RaiseAPI(s, r.body)
    ELSE [s EXCEPT !.pc = "store", !.value = r.body]

\* mutant of Classify: a connection failure or timeout is not retried
ClassifyNoNetworkRetry(s, r) ==
    IF r.kind = "response" /\ ~IsSuccess(r)
    THEN IF r.code = 429 THEN Retry(s, "FourGetAuthError")
         ELSE Raise(s, "FourGetTransportError")
    ELSE IF r.kind \in {"ConnectError", "TimeoutException", "HTTPError"}
    THEN Raise(s, "FourGetTransportError")
    ELSE IF r.body.json = "invalid" THEN Raise(s, "FourGetTransportError")
    ELSE IF r.body.json # "object" THEN Raise(s, "AttributeError")
    ELSE IF DictGet(r.body.status) = "None" THEN Raise(s, "FourGetError")
    ELSE IF DictGet(r.body.status) # "ok" THEN RaiseAPI(s, r.body)
    ELSE [s EXCEPT !.pc = "store", !.value = r.body]

\* mutant of Classify: an envelope that has a status is returned whatever the status
ClassifyAnyStatus(s, r) ==
    IF r.kind = "response" /\ ~IsSuccess(r)
    THEN IF r.code = 429 THEN Retry(s, "FourGetAuthError")
         ELSE Raise(s, "FourGetTransportError")
    ELSE IF r.kind \in {"ConnectError", "TimeoutException"}
    THEN Retry(s, "FourGetTransportError")
    ELSE IF r.kind = "HTTPError" THEN Raise(s, "FourGetTransportError")
    ELSE IF r.body.json = "invalid" THEN Raise(s, "FourGetTransportError")
    ELSE IF r.body.json # "object" THEN Raise(s, "AttributeError")
    ELSE IF DictGet(r.body.status) = "None" THEN Raise(s, "FourGetError")
    ELSE [s EXCEPT !.pc = "store", !.value = r.body]

\* mutant of Classify: a success after a failed attempt raises the remembered error
ClassifyStaleException(s, r) ==
    IF r.kind = "response" /\ ~IsSuccess(r)
    THEN IF r.code = 429 THEN Retry(s, "FourGetAuthError")
         ELSE Raise(s, "FourGetTransportError")
    ELSE IF r.kind \in {"ConnectError", "TimeoutException"}
    THEN Retry(s, "FourGetTransportError")
    ELSE IF r.kind = "HTTPError" THEN Raise(s, "FourGetTransportError")
    ELSE IF s.last_exception # "None" THEN Raise(s, s.last_exception)
    ELSE IF r.body.json = "invalid" THEN Raise(s, "FourGetTransportError")
    ELSE IF r.body.json # "object" THEN Raise(s, "AttributeError")
    ELSE IF DictGet(r.body.status) = "None" THEN Raise(s, "FourGetError")
    ELSE IF DictGet(r.body.status) # "ok" THEN RaiseAPI(s, r.body)
    ELSE [s EXCEPT !.pc = "store", !.value = r.body]

\* _request: one iteration's body after `await client.get(...)` ended in r
Classify(s, r) ==
    IF r.kind = "response" /\ ~IsSuccess(r)
    THEN \* except httpx.HTTPStatusError
         IF r.code = 429 THEN Retry(s, "FourGetAuthError")
         ELSE Raise(s, "FourGetTransportError")
    ELSE IF r.kind \in {"ConnectError", "TimeoutException"}
    THEN \* except (httpx.ConnectError, httpx.TimeoutException)
         Retry(s, "FourGetTransportError")
    ELSE IF r.kind = "HTTPError"
    THEN \* except httpx.HTTPError
         Raise(s, "FourGetTransportError")
    ELSE IF r.body.json = "invalid" THEN Raise(s, "FourGetTransportError")
    ELSE IF r.body.json # "object" THEN Raise(s, "AttributeError")
    ELSE IF DictGet(r.body.status) = "None" THEN Raise(s, "FourGetError")
    ELSE IF DictGet(r.body.status) # "ok" THEN RaiseAPI(s, r.body)
    ELSE [s EXCEPT !.pc = "store", !.value = r.body]

\* history: the document of the previous search p, if it was for key k and the cache
\* entry holding it has expired by now
Expired(p, k) ==
    IF p.set /\ p.key = k /\ ttl > 0 /\ now >= p.at + ttl THEN p.value ELSE NoBody

\* FourGetClient.__init__ on a validated or hand-built Config, with its own cache
SearchInit ==
    /\ CacheInit
    /\ max_retries \in (-1)..MaxRetries
    /\ search = [t \in Tasks |-> Idle]
    /\ searches = 0
    /\ call = NoCall
    /\ NoWorkers

\* _search up to its first suspension: the cache lookup and, on a miss, _request up
\* to the first GET
Start(t, k) ==
    /\ search[t].pc = "idle"
    /\ searches < MaxSearches
    /\ searches' = searches + 1
    /\ entries' = GetEntries(entries, k, now)
    /\ LET cached == GetResult(entries, k, now)
           s == [search[t] EXCEPT !.key = k, !.prev = NoPrev,
                                  !.old = Expired(search[t].prev, k)]
       IN search' = [search EXCEPT ![t] =
              IF cached # None
              THEN Return([s EXCEPT !.hit = TRUE, !.at = entries[Lookup(entries, k)].expires_at - ttl],
                          cached.value)
              ELSE LoopHead(s, 0)]
    /\ UNCHANGED <<ttl, maxsize, now, max_retries>>
    /\ UNCHANGED <<histVars, call, concVars>>

\* one more GET has ended, in r, and the `async with httpx.AsyncClient(...)` block is
\* left, which closes the client; got, got429, gotNet and last are history
Saw(s, r) ==
    [s EXCEPT !.got = @ + 1,
              !.got429 = IF r.kind = "response" /\ r.code = 429 THEN @ + 1 ELSE @,
              !.gotNet = IF r.kind \in {"ConnectError", "TimeoutException"}
                         THEN @ + 1 ELSE @,
              !.last = r, !.open = FALSE]

\* the GET in flight ends in r
Receive(t, r) ==
    /\ search[t].pc = "inflight"
    /\ search' = [search EXCEPT ![t] = Classify(Saw(search[t], r), r)]
    /\ UNCHANGED <<cacheVars, histVars, max_retries, searches, call, concVars>>

\* mutant of Wake: `continue` skips an attempt
WakeSkips(t) ==
    /\ search[t].pc = "sleep"
    /\ search' = [search EXCEPT ![t] =
           LoopHead([search[t] EXCEPT !.sleeps = @ + 1], search[t].attempt + 2)]
    /\ UNCHANGED <<cacheVars, histVars, max_retries, searches, call, concVars>>

\* asyncio.sleep(delay) is over: `continue`
Wake(t) ==
    /\ search[t].pc = "sleep"
    /\ search' = [search EXCEPT ![t] =
           LoopHead([search[t] EXCEPT !.sleeps = @ + 1], search[t].attempt + 1)]
    /\ UNCHANGED <<cacheVars, histVars, max_retries, searches, call, concVars>>

\* mutant of Store: the payload is returned without being cached
StoreUncached(t) ==
    /\ search[t].pc = "store"
    /\ search' = [search EXCEPT ![t] = Return([search[t] EXCEPT !.at = now], search[t].value)]
    /\ UNCHANGED <<cacheVars, max_retries, searches>>
    /\ UNCHANGED <<histVars, call, concVars>>

\* _search after _request returned: cache the payload and return it
Store(t) ==
    /\ search[t].pc = "store"
    /\ entries' = SetEntries(entries, search[t].key, search[t].value, now)
    /\ search' = [search EXCEPT ![t] = Return([search[t] EXCEPT !.at = now], search[t].value)]
    /\ UNCHANGED <<ttl, maxsize, now, max_retries, searches>>
    /\ UNCHANGED <<histVars, call, concVars>>

\* history: what the next search remembers of the search s that is over
Previous(s) ==
    IF s.outcome = "returned"
    THEN [NoPrev EXCEPT !.set = TRUE, !.key = s.key, !.value = s.value, !.at = s.at,
                        !.calls = s.calls]
    ELSE [NoPrev EXCEPT !.failed = TRUE, !.key = s.key]

\* the caller is done with the result; the task is free for the next search
Restart(t) ==
    /\ search[t].pc = "done"
    /\ search' = [search EXCEPT ![t] = [Idle EXCEPT !.prev = Previous(search[t])]]
    /\ UNCHANGED <<cacheVars, histVars, max_retries, searches, call, concVars>>

SearchNext ==
    \/ \E t \in Tasks, k \in Queries : Start(t, k)
    \/ \E t \in Tasks, r \in Responses : Receive(t, r)
    \/ \E t \in Tasks : Wake(t)
    \/ \E t \in Tasks : Store(t)
    \/ \E t \in Tasks : Restart(t)
    \/ Tick

SearchSpec == SearchInit /\ [][SearchNext]_vars

\* ---- one search on a new client (client.py, _search and _request)
\* A single task makes a single search on a client whose cache is still empty, so the
\* search goes through the retry loop; the clock plays no part.
RetryNext ==
    \/ \E t \in Tasks, k \in Queries : Start(t, k)
    \/ \E t \in Tasks, r \in Responses : Receive(t, r)
    \/ \E t \in Tasks : Wake(t)
    \/ \E t \in Tasks : Store(t)

\* every HTTP exchange ends (client.get returns or raises), every backoff sleep ends,
\* and the task goes on once the `async with` block is left
RetryFairSpec ==
    /\ SearchInit /\ [][RetryNext]_vars
    /\ \A t \in Tasks :
           /\ WF_vars(\E r \in Responses : Receive(t, r))
           /\ WF_vars(Wake(t))
           /\ WF_vars(Store(t))

\* ------------------------------------- client.py under concurrent tasks
\* Two tasks search on one client and one cache at the same time, each once.  The
\* event loop runs one task at a time from one suspension point to the next, so the
\* steps of the two searches interleave at the GET in flight, the backoff sleep and
\* the exit of the `async with` block; the cache operations inside a step run whole,
\* as no task is suspended while it holds the cache's lock.
Racers == {1, 2}

\* what the attempts of the concurrent searches end in: an envelope with status "ok"
\* and one of two documents, a rate limit, or a status that is not retried
RaceResponses ==
    {[kind |-> "response", code |-> 200,
      body |-> [NoBody EXCEPT !.json = "object", !.status = "ok", !.doc = v]] : v \in Values}
    \cup {[kind |-> "response", code |-> c, body |-> NoBody] : c \in {404, 429}}

\* one client, built on a Config that allows no retry or one, with its own cache
RaceInit ==
    /\ CacheInit
    /\ max_retries \in {0, 1}
    /\ search = [t \in Racers |-> Idle]
    /\ searches = 0
    /\ call = NoCall
    /\ NoWorkers

RaceNext ==
    \/ \E t \in Racers, k \in Queries : Start(t, k)
    \/ \E t \in Racers, r \in RaceResponses : Receive(t, r)
    \/ \E t \in Racers : Wake(t)
    \/ \E t \in Racers : Store(t)
    \/ Tick

\* every GET in flight is answered, every sleep ends and every task that is ready to
\* run is run
RaceFairSpec ==
    /\ RaceInit /\ [][RaceNext]_vars
    /\ \A t \in Racers :
           /\ WF_vars(\E r \in RaceResponses : Receive(t, r))
           /\ WF_vars(Wake(t))
           /\ WF_vars(Store(t))

\* -------------------------------------------- helper functions on their own
\* A helper function is called once on arguments drawn at the start; no cache is
\* used and no search runs.
NoClient ==
    /\ ttl = 0 /\ maxsize = 1 /\ entries = <<>> /\ now = 0
    /\ lastOp = NoOp
    /\ lastSet = [k \in Keys |-> NeverSet]
    /\ run = [valid |-> TRUE, keys |-> <<>>]
    /\ max_retries = 0
    /\ search = [t \in Tasks |-> Idle]
    /\ searches = 0
    /\ NoWorkers

\* a call of fn on arg that has not run yet
Pending(fn, arg) == [fn |-> fn, arg |-> arg, done |-> FALSE]

\* the call has run and ended in ret
Done(c, ret) == [fn |-> c.fn, arg |-> c.arg, done |-> TRUE, ret |-> ret]

\* The envelope inspection of _request on its own: the JSON objects a 2xx response can
\* carry, with every status and with `message`, `error` and `detail` each absent,
\* null, the empty string or a text of its own.
Envelopes ==
    {[NoBody EXCEPT !.json = "object", !.status = st, !.doc = 1,
                    !.message = m, !.error = e, !.detail = d] :
        st \in {"absent", "null", "error", "ok"},
        m \in {"absent", "null", "", "m"}, e \in {"absent", "null", "", "e"},
        d \in {"absent", "null", "", "d"}}

EnvelopeInit ==
    /\ NoClient
    /\ \E data \in Envelopes : call = Pending("inspect", data)

\* _request after `data = response.json()` gave the object call.arg, at the first
\* attempt: what the search ends in
Inspect ==
    /\ call.fn = "inspect" /\ ~call.done
    /\ LET r == [kind |-> "response", code |-> 200, body |-> call.arg]
           s == Classify([Idle EXCEPT !.pc = "inflight", !.calls = 1], r)
       IN call' = Done(call, [pc |-> s.pc, error |-> s.error, args |-> s.args,
                              value |-> s.value])
    /\ UNCHANGED <<cacheVars, histVars, clientVars, concVars>>

EnvelopeSpec == EnvelopeInit /\ [][Inspect]_vars

\* ---- the request parameters of a search call (client.py, _call_search)
\* A Python dict is the sequence of its items in insertion order.  Python values are
\* strings: "None", "True" and "False" stand for None, True and False, anything else
\* for the str itself.
DictHas(d, k) == \E i \in 1..Len(d) : d[i].key = k

DictValue(d, k) == d[CHOOSE i \in 1..Len(d) : d[i].key = k].value

\* mutant of DictSet: a key that is there keeps its value
DictSetKeep(d, k, v) ==
    IF DictHas(d, k) THEN d ELSE Append(d, [key |-> k, value |-> v])

\* d[k] = v: an existing key keeps its place
DictSet(d, k, v) ==
    IF DictHas(d, k)
    THEN [i \in 1..Len(d) |-> IF d[i].key = k THEN [key |-> k, value |-> v] ELSE d[i]]
    ELSE Append(d, [key |-> k, value |-> v])

\* d.update(items)
RECURSIVE DictUpdate(_, _)
DictUpdate(d, items) ==
    IF items = <<>> THEN d
    ELSE DictUpdate(DictSet(d, Head(items).key, Head(items).value), Tail(items))

\* Python's truth value of a str or None
NonEmpty(v) == v \notin {"None", ""}

\* {key: value for key, value in options.items() if value is not None}
NotNoneItems(options) == SelectSeq(options, LAMBDA it : it.value # "None")

\* mutant of PrepareSearchParams: the query is sent along with the page token
PrepareSearchParamsBoth(query, page_token, options) ==
    LET params == IF NonEmpty(page_token)
                  THEN <<[key |-> "s", value |-> query], [key |-> "npt", value |-> page_token]>>
                  ELSE <<[key |-> "s", value |-> query]>>
    IN IF options # <<>> THEN DictUpdate(params, NotNoneItems(options)) ELSE params

\* _prepare_search_params; options None and options {} take the same branch
PrepareSearchParams(query, page_token, options) ==
    LET params == IF NonEmpty(page_token) THEN <<[key |-> "npt", value |-> page_token]>>
                  ELSE <<[key |-> "s", value |-> query]>>
    IN IF options # <<>> THEN DictUpdate(params, NotNoneItems(options)) ELSE params

\* A member of an Enum among the parameter values is written by its name;
\* "SearchEngine.BRAVE" stands for the member of server.py's SearchEngine.
EnumMembers == {"SearchEngine.BRAVE"}

\* value.value of a member
EnumValue(v) == CASE v = "SearchEngine.BRAVE" -> "brave"

\* mutant of NormalizeParams: booleans are left as they are
NormalizeParamsStr(params) ==
    LET kept == SelectSeq(params, LAMBDA it : it.value # "None")
    IN [i \in 1..Len(kept) |->
           [key |-> kept[i].key,
            value |-> LET value == IF kept[i].value \in EnumMembers
                                   THEN EnumValue(kept[i].value) ELSE kept[i].value
                      IN value]]

\* _normalize_params: None values are dropped, a member of an Enum becomes its value,
\* and then booleans become 'true' and 'false'
NormalizeParams(params) ==
    LET kept == SelectSeq(params, LAMBDA it : it.value # "None")
    IN [i \in 1..Len(kept) |->
           [key |-> kept[i].key,
            value |-> LET value == IF kept[i].value \in EnumMembers
                                   THEN EnumValue(kept[i].value) ELSE kept[i].value
                      IN IF value = "True" THEN "true"
                         ELSE IF value = "False" THEN "false"
                         ELSE value]]

\* _call_search up to the request: the parameters _search hands to _request
RequestParams(query, page_token, options, include_extended) ==
    LET params == PrepareSearchParams(query, page_token, options)
    IN NormalizeParams(IF include_extended # "None"
                       THEN DictSet(params, "extendedsearch", include_extended)
                       ELSE params)

\* the option dicts of at most MaxOptions items, of the parameter names and values
\* the callers pass as options
OptionDicts ==
    UNION {{d \in [1..n -> [key : {"s", "npt", "scraper", "extendedsearch"},
                            value : {"None", "x"}]] :
                \A i, j \in 1..n : d[i].key = d[j].key => i = j} : n \in 0..MaxOptions}

ParamsInit ==
    /\ NoClient
    /\ \E query \in {"", "q"}, page_token \in {"None", "", "t"}, options \in OptionDicts,
          include_extended \in {"None", "True", "False"} :
          call = Pending("call_search",
                         [query |-> query, page_token |-> page_token, options |-> options,
                          include_extended |-> include_extended])

\* web_search, image_search or news_search up to the request
CallSearch ==
    /\ call.fn = "call_search" /\ ~call.done
    /\ call' = Done(call, RequestParams(call.arg.query, call.arg.page_token,
                                        call.arg.options, call.arg.include_extended))
    /\ UNCHANGED <<cacheVars, histVars, clientVars, concVars>>

ParamsSpec == ParamsInit /\ [][CallSearch]_vars

\* ---- the cache key of a search (client.py, _search and _cache_key)
\* Two searches follow one another on a new client: the first goes to the network, is
\* answered with a document and caches it; the second looks its own key up.  A number
\* among the parameter values is written "int:" and its digits: "int:1" stands for the
\* int 1, "1" for the str '1'.
Endpoints == {"web", "images", "news"}

\* httpx's primitive_value_to_str, which QueryParams applies to every value: true,
\* false and '' for True, False and None, str(value) for the rest
PrimitiveValueToStr(v) ==
    CASE v = "True" -> "true"
      [] v = "False" -> "false"
      [] v = "None" -> ""
      [] v = "int:1" -> "1"
      [] OTHER -> v

\* tuple(httpx.QueryParams(params).multi_items()): the items in order, values as text
MultiItems(params) ==
    [i \in 1..Len(params) |-> <<params[i].key, PrimitiveValueToStr(params[i].value)>>]

\* mutant of CacheKey: the items are taken as a set, whatever their order
CacheKeyUnordered(endpoint, params) ==
    <<endpoint, {MultiItems(params)[i] : i \in 1..Len(params)}>>

\* mutant of CacheKey: the endpoint is left out of the key
CacheKeyNoEndpoint(endpoint, params) == <<"", MultiItems(params)>>

\* _cache_key: f'{endpoint}:{serialized}'.  No endpoint holds a colon and the text of
\* the tuple starts with a parenthesis, so the string is the pair of its two parts.
CacheKey(endpoint, params) == <<endpoint, MultiItems(params)>>

\* the GET that _request sends: the path of the endpoint, and the query string, which
\* httpx builds from the parameters with the same QueryParams
HttpRequest(endpoint, params) ==
    [path |-> <<"/api/v1/", endpoint>>, query |-> MultiItems(params)]

\* the parameter dicts of the searches, of at most MaxOptions items
ParamDicts ==
    UNION {{d \in [1..n -> [key : {"s", "page"},
                            value : {"None", "True", "true", "1", "int:1"}]] :
                \A i, j \in 1..n : d[i].key = d[j].key => i = j} : n \in 0..MaxOptions}

\* a new client with its cache; the first search is a web search
KeyInit ==
    /\ CacheInit
    /\ max_retries = 0
    /\ search = [t \in Tasks |-> Idle]
    /\ searches = 0
    /\ NoWorkers
    /\ \E p \in ParamDicts, e \in Endpoints, q \in ParamDicts :
          call = Pending("first_search",
                         [first |-> [endpoint |-> "web", params |-> p],
                          second |-> [endpoint |-> e, params |-> q]])

\* _search(endpoint, params) on the empty cache, answered with a document at once
FirstSearch ==
    /\ call.fn = "first_search"
    /\ LET normalized_params == NormalizeParams(call.arg.first.params)
           cache_key == CacheKey(call.arg.first.endpoint, normalized_params)
       IN entries' = SetEntries(GetEntries(entries, cache_key, now), cache_key, 1, now)
    /\ call' = Pending("second_search", call.arg)
    /\ UNCHANGED <<ttl, maxsize, now, histVars, clientVars, concVars>>

\* _search(endpoint, params) up to `if cached is not None`: what the cache gave
SecondSearch ==
    /\ call.fn = "second_search" /\ ~call.done
    /\ LET normalized_params == NormalizeParams(call.arg.second.params)
           cache_key == CacheKey(call.arg.second.endpoint, normalized_params)
       IN /\ entries' = GetEntries(entries, cache_key, now)
          /\ call' = Done(call, GetResult(entries, cache_key, now))
    /\ UNCHANGED <<ttl, maxsize, now, histVars, clientVars, concVars>>

KeyNext == FirstSearch \/ SecondSearch

KeySpec == KeyInit /\ [][KeyNext]_vars

\* ---- one cache injected into two clients (client.py, __init__ and _search)
\* The caller builds one TTLCache and passes it as `cache=` to two clients, which keep
\* it: a TTLCache object is truthy, so `cache or TTLCache(...)` is the cache given.
\* The first client searches, then the second; each client's upstream answers at once
\* with a document of its own.
\* the document the upstream at base_url answers with
UpstreamDoc(base_url) == IF base_url = "https://4get.ca" THEN 1 ELSE 2

\* mutant of ClientCacheKey: the key names the client's base URL too
ClientCacheKeyScoped(self, endpoint, params) == <<self.base_url, CacheKey(endpoint, params)>>

\* self._cache_key(endpoint, normalized_params): a static method, which is given
\* nothing of the client self
ClientCacheKey(self, endpoint, params) == CacheKey(endpoint, params)

\* self._search(endpoint, params) on the store es at time t: the payload returned, the
\* HTTP calls made to the client's upstream, and the store left
ClientSearch(self, s, es, t) ==
    LET normalized_params == NormalizeParams(s.params)
        cache_key == ClientCacheKey(self, s.endpoint, normalized_params)
        cached == GetResult(es, cache_key, t)
        payload == UpstreamDoc(self.base_url)
    IN IF cached.some
       THEN [payload |-> cached.value, calls |-> 0, at |-> t,
             entries |-> GetEntries(es, cache_key, t)]
       ELSE [payload |-> payload, calls |-> 1, at |-> t,
             entries |-> SetEntries(GetEntries(es, cache_key, t), cache_key, payload, t)]

\* the cache and the two clients built on it, of different base URL or pass token;
\* the searches made are a web search first, then a web or a news search
SharedInit ==
    /\ CacheInit
    /\ max_retries = 0
    /\ search = [t \in Tasks |-> Idle]
    /\ searches = 0
    /\ NoWorkers
    /\ \E a, b \in [base_url : {"https://example.com", "https://4get.ca"},
                     pass_token : {"None", "secret"}],
          p, q \in {d \in ParamDicts : Len(d) <= 1}, e \in {"web", "news"} :
          /\ a # b
          /\ call = Pending("first_client",
                            [clients |-> <<a, b>>,
                             first |-> [endpoint |-> "web", params |-> p],
                             second |-> [endpoint |-> e, params |-> q]])

\* the first client's search
FirstClientSearch ==
    /\ call.fn = "first_client"
    /\ LET r == ClientSearch(call.arg.clients[1], call.arg.first, entries, now)
       IN /\ entries' = r.entries
          /\ call' = Pending("second_client",
                             [call.arg EXCEPT !.first = [endpoint |-> call.arg.first.endpoint,
                                                         params |-> call.arg.first.params,
                                                         payload |-> r.payload,
                                                         calls |-> r.calls, at |-> r.at]])
    /\ UNCHANGED <<ttl, maxsize, now, histVars, clientVars, concVars>>

\* the second client's search
SecondClientSearch ==
    /\ call.fn = "second_client" /\ ~call.done
    /\ LET r == ClientSearch(call.arg.clients[2], call.arg.second, entries, now)
       IN /\ entries' = r.entries
          /\ call' = Done(call, [payload |-> r.payload, calls |-> r.calls, at |-> r.at])
    /\ UNCHANGED <<ttl, maxsize, now, histVars, clientVars, concVars>>

SharedNext == FirstClientSearch \/ SecondClientSearch \/ Tick

SharedSpec == SharedInit /\ [][SharedNext]_vars

\* ---- the normalization of a search's parameters (client.py, _search)
\* the parameter mappings handed to _search, of at most MaxOptions items
RawDicts ==
    UNION {{d \in [1..n -> [key : {"s", "scraper", "extendedsearch"},
                            value : {"None", "True", "False", "x", "SearchEngine.BRAVE"}]] :
                \A i, j \in 1..n : d[i].key = d[j].key => i = j} : n \in 0..MaxOptions}

NormalizeInit ==
    /\ NoClient
    /\ \E endpoint \in Endpoints, params \in RawDicts :
          call = Pending("_search", [endpoint |-> endpoint, params |-> params])

\* _search up to the GET, on a cache that does not hold the key: the normalized
\* parameters, the cache key made of them and the request sent with them
Normalize ==
    /\ call.fn = "_search" /\ ~call.done
    /\ LET normalized_params == NormalizeParams(call.arg.params)
       IN call' = Done(call,
              [normalized_params |-> normalized_params,
               cache_key |-> CacheKey(call.arg.endpoint, normalized_params),
               request |-> HttpRequest(call.arg.endpoint, normalized_params)])
    /\ UNCHANGED <<cacheVars, histVars, clientVars, concVars>>

NormalizeSpec == NormalizeInit /\ [][Normalize]_vars

\* ------------------------------------- cache.py under concurrent tasks
\* Several tasks call get, set and clear on one cache.  The operations are taken
\* statement by statement, with the lock as state: the call up to `async with
\* self._lock`, the acquisition, the first statement under the lock, and the rest up
\* to the release.  The event loop's schedules are among these interleavings.
\* At most MaxOps operations are called; t is the number of the operation.

\* get(k) is called
CallGet(t, k) ==
    /\ worker[t].pc = "idle" /\ t = serial.ops + 1
    /\ worker' = [worker EXCEPT ![t] = [Resting EXCEPT !.pc = "acquire", !.op = "get", !.key = k]]
    /\ serial' = [serial EXCEPT !.ops = @ + 1]
    /\ UNCHANGED <<cacheVars, histVars, clientVars, call, lock>>

\* set(k, v) is called: with TTL 0 it returns at once, else it reads the clock and
\* builds the entry before it asks for the lock.  The cache never inspects a value:
\* every set writes a value of its own, the number of the call, so that a lost or
\* misplaced set shows.
CallSet(t, k) ==
    /\ worker[t].pc = "idle" /\ t = serial.ops + 1
    /\ LET v == serial.ops + 1 IN worker' = [worker EXCEPT ![t] =
           IF ttl = 0 THEN [Resting EXCEPT !.op = "set", !.key = k, !.value = v]
           ELSE [Resting EXCEPT !.pc = "acquire", !.op = "set", !.key = k, !.value = v,
                                !.t0 = now]]
    /\ serial' = [serial EXCEPT !.ops = @ + 1,
                                !.plain = @ /\ k \notin serial.started,
                                !.started = @ \cup {k}]
    /\ UNCHANGED <<cacheVars, histVars, clientVars, call, lock>>

\* clear() is called
CallClear(t) ==
    /\ worker[t].pc = "idle" /\ t = serial.ops + 1
    /\ worker' = [worker EXCEPT ![t] = [Resting EXCEPT !.pc = "acquire", !.op = "clear"]]
    /\ serial' = [serial EXCEPT !.ops = @ + 1, !.plain = FALSE]
    /\ UNCHANGED <<cacheVars, histVars, clientVars, call, lock>>

\* mutant of Acquire: the lock is taken whether it is free or not
AcquireUnguarded(t) ==
    /\ worker[t].pc = "acquire"
    /\ lock' = t
    /\ worker' = [worker EXCEPT ![t].pc = "body"]
    /\ UNCHANGED <<cacheVars, histVars, clientVars, call, serial>>

\* `async with self._lock`: asyncio.Lock.acquire succeeds when the lock is free
Acquire(t) ==
    /\ worker[t].pc = "acquire"
    /\ lock = 0
    /\ lock' = t
    /\ worker' = [worker EXCEPT ![t].pc = "body"]
    /\ UNCHANGED <<cacheVars, histVars, clientVars, call, serial>>

\* the first statement under the lock: get reads the entry, set makes room, clear
\* empties the dict
Body(t) ==
    /\ worker[t].pc = "body"
    /\ LET w == worker[t]
           i == Lookup(entries, w.key)
       IN /\ entries' =
                 CASE w.op = "get" -> entries
                   [] w.op = "set" ->
                          IF Len(entries) >= maxsize THEN EvictOneLocked(entries) ELSE entries
                   [] w.op = "clear" -> ClearEntries(entries)
          /\ worker' = [worker EXCEPT ![t].pc = "commit",
                           ![t].entry = IF w.op = "get" /\ i # 0 THEN entries[i] ELSE NoEntry]
    /\ UNCHANGED <<ttl, maxsize, now, histVars, clientVars, call, lock, serial>>

\* the rest of the operation and the release of the lock: get tests the entry it read,
\* drops it if expired and returns; set stores its entry.  History: the whole
\* operation is applied to the serial store.
Commit(t) ==
    /\ worker[t].pc = "commit"
    /\ LET w == worker[t]
           gone == w.entry # NoEntry /\ expired(w.entry, now)
       IN /\ entries' =
                 CASE w.op = "get" -> IF gone THEN Pop(entries, w.key) ELSE entries
                   [] w.op = "set" -> Put(entries, CacheEntry(w.key, w.value, w.t0 + ttl))
                   [] w.op = "clear" -> entries
          /\ worker' = [worker EXCEPT ![t] = Resting]
          /\ serial' = [serial EXCEPT
                 !.ret = IF w.op = "get" /\ w.entry # NoEntry /\ ~gone
                         THEN Some(w.entry.value) ELSE None,
                 !.want = IF w.op = "get" THEN GetResult(serial.entries, w.key, now)
                          ELSE None,
                 !.entries =
                     CASE w.op = "get" -> GetEntries(serial.entries, w.key, now)
                       [] w.op = "set" -> SetEntries(serial.entries, w.key, w.value, w.t0)
                       [] w.op = "clear" -> ClearEntries(serial.entries),
                 !.sets = IF w.op = "set"
                          THEN [@ EXCEPT ![w.key] = [done |-> TRUE, value |-> w.value,
                                                     expires_at |-> w.t0 + ttl]]
                          ELSE @]
    /\ lock' = 0
    /\ UNCHANGED <<ttl, maxsize, now, histVars, clientVars, call>>

ConcurrentNext ==
    \/ \E t \in Workers, k \in Queries : CallGet(t, k)
    \/ \E t \in Workers, k \in Queries : CallSet(t, k)
    \/ \E t \in Workers : CallClear(t)
    \/ \E t \in Workers : Acquire(t)
    \/ \E t \in Workers : Body(t)
    \/ \E t \in Workers : Commit(t)
    \/ Tick

ConcurrentSpec == Init /\ [][ConcurrentNext]_vars

\* ------------------------------------------ cache.py under the event loop
\* The same operations, statement by statement, as the asyncio event loop schedules
\* them: one task runs at a time, and another task runs only when the running one is
\* suspended or has returned.  An operation of the cache has one await, the
\* acquisition of the lock in `async with self._lock`, which suspends the task only
\* when the lock is held; no statement under the lock awaits.

\* mutant of Suspended: the task is also suspended under the lock, before the rest of
\* the operation
SuspendedUnderLock(u) ==
    \/ worker[u].pc = "idle"
    \/ worker[u].pc = "acquire" /\ lock # 0
    \/ worker[u].pc = "commit"

\* the task of operation u does not run: it has not called the operation or has
\* returned from it, or it waits for the lock in asyncio.Lock.acquire
Suspended(u) ==
    \/ worker[u].pc = "idle"
    \/ worker[u].pc = "acquire" /\ lock # 0

\* the event loop can run the task of operation t
Scheduled(t) == \A u \in Workers \ {t} : Suspended(u)

LoopNext ==
    \/ \E t \in Workers, k \in Queries : Scheduled(t) /\ CallGet(t, k)
    \/ \E t \in Workers, k \in Queries : Scheduled(t) /\ CallSet(t, k)
    \/ \E t \in Workers : Scheduled(t) /\ CallClear(t)
    \/ \E t \in Workers : Scheduled(t) /\ Acquire(t)
    \/ \E t \in Workers : Scheduled(t) /\ Body(t)
    \/ \E t \in Workers : Scheduled(t) /\ Commit(t)
    \/ Tick

\* the event loop runs every task that is ready to run
LoopFairSpec ==
    /\ Init /\ [][LoopNext]_vars
    /\ \A t \in Workers :
           /\ WF_vars(Scheduled(t) /\ Acquire(t))
           /\ WF_vars(Scheduled(t) /\ Body(t))
           /\ WF_vars(Scheduled(t) /\ Commit(t))

\* ----------------------------------------------------------- config.py
\* Seconds are counted in hundredths, so that 0.05 and 0.1 are integers: 20.0 s is
\* 2000.  Counts (sizes, retries, connections) are plain integers.
DEFAULT_BASE_URL == "https://4get.ca"
DEFAULT_TIMEOUT_SECONDS == 2000
DEFAULT_CACHE_TTL_SECONDS == 60000
DEFAULT_CACHE_MAXSIZE == 128
DEFAULT_MAX_RETRIES == 3
DEFAULT_RETRY_BASE_DELAY == 100
DEFAULT_RETRY_MAX_DELAY == 6000
DEFAULT_CONNECTION_POOL_MAXSIZE == 10
DEFAULT_CONNECTION_POOL_MAX_KEEPALIVE == 5

\* float('nan'), which float(raw) returns for the text "nan" and which a caller can
\* pass for any float field: a value apart from the numbers used.  As in Python,
\* every ordering comparison with it is false.
NaN == -999999
Lt(a, b) == a # NaN /\ b # NaN /\ a < b
Le(a, b) == a # NaN /\ b # NaN /\ a <= b
Gt(a, b) == Lt(b, a)

\* the base URLs tried: without scheme, with a scheme that is not HTTP, without host,
\* and well-formed ones
Urls ==
    {"not-a-url", "ftp://example.com", "https://", "http://example.com",
     "https://example.com", "https://example.com/", DEFAULT_BASE_URL}

\* urllib.parse.urlparse on these URLs: the scheme and the network location
Urlparse(url) ==
    CASE url = "not-a-url" -> [scheme |-> "", netloc |-> ""]
      [] url = "ftp://example.com" -> [scheme |-> "ftp", netloc |-> "example.com"]
      [] url \in {"https://", "https:"} -> [scheme |-> "https", netloc |-> ""]
      [] url = "http://example.com" -> [scheme |-> "http", netloc |-> "example.com"]
      [] url \in {"https://example.com", "https://example.com/"} ->
             [scheme |-> "https", netloc |-> "example.com"]
      [] url = DEFAULT_BASE_URL -> [scheme |-> "https", netloc |-> "4get.ca"]

\* str.rstrip('/') on these URLs
RstripSlash(url) ==
    CASE url = "https://" -> "https:"
      [] url = "https://example.com/" -> "https://example.com"
      [] OTHER -> url

\* Config(...): the dataclass's generated __init__ stores the values it is given;
\* there is no __post_init__
Config(url, timeout, cache_ttl, cache_maxsize, retries, base_delay, max_delay, pool, keepalive) ==
    [base_url |-> url, timeout |-> timeout, cache_ttl |-> cache_ttl,
     cache_maxsize |-> cache_maxsize, max_retries |-> retries,
     retry_base_delay |-> base_delay, retry_max_delay |-> max_delay,
     connection_pool_maxsize |-> pool, connection_pool_max_keepalive |-> keepalive]

\* Config._validate: "ok" when it returns self, else the message of the ValueError
Validate(c) ==
    LET parsed == Urlparse(c.base_url)
    IN IF parsed.scheme = "" \/ parsed.netloc = "" THEN "Invalid base_url"
       ELSE IF parsed.scheme \notin {"http", "https"}
       THEN "base_url must use http or https scheme"
       ELSE IF Le(c.timeout, 0) THEN "timeout must be positive"
       ELSE IF Lt(c.cache_ttl, 0) THEN "cache_ttl must be non-negative"
       ELSE IF c.cache_maxsize < 1 THEN "cache_maxsize must be at least 1"
       ELSE IF c.max_retries < 0 THEN "max_retries must be non-negative"
       ELSE IF Le(c.retry_base_delay, 0) THEN "retry_base_delay must be positive"
       ELSE IF Le(c.retry_max_delay, 0) THEN "retry_max_delay must be positive"
       ELSE IF Gt(c.retry_base_delay, c.retry_max_delay)
       THEN "retry_base_delay must not exceed retry_max_delay"
       ELSE IF c.connection_pool_maxsize < 1
       THEN "connection_pool_maxsize must be at least 1"
       ELSE IF c.connection_pool_max_keepalive < 1
       THEN "connection_pool_max_keepalive must be at least 1"
       ELSE IF c.connection_pool_max_keepalive > c.connection_pool_maxsize
       THEN "connection_pool_max_keepalive must not exceed connection_pool_maxsize"
       ELSE "ok"

\* An environment variable is unset, empty, text that is no number, or a number:
\* float(raw) parses "nan" too, to the number NaN, while int(raw) raises on it.
Unset == [kind |-> "unset", n |-> 0]
Raw(kind) == [kind |-> kind, n |-> 0]
Num(n) == [kind |-> "number", n |-> n]

\* mutant of ReadNumber: a value below the minimum is kept
ReadNumberAny(raw, default, has_minimum, minimum) ==
    IF raw.kind \in {"unset", "empty"} THEN default
    ELSE IF raw.kind # "number" THEN default
    ELSE raw.n

\* _read_number(name, cast, default, minimum=...): raw is environ.get(name);
\* has_minimum is FALSE when minimum is None
ReadNumber(raw, default, has_minimum, minimum) ==
    IF raw.kind \in {"unset", "empty"} THEN default
    ELSE IF raw.kind # "number" THEN default
    ELSE IF has_minimum /\ Lt(raw.n, minimum) THEN default
    ELSE raw.n

\* Config.from_env before `._validate()`: the Config built from the environment
EnvConfig(env) ==
    Config(RstripSlash(IF env.FOURGET_BASE_URL = "unset" THEN DEFAULT_BASE_URL
                       ELSE env.FOURGET_BASE_URL),
           ReadNumber(env.FOURGET_TIMEOUT, DEFAULT_TIMEOUT_SECONDS, FALSE, 0),
           ReadNumber(env.FOURGET_CACHE_TTL, DEFAULT_CACHE_TTL_SECONDS, FALSE, 0),
           ReadNumber(env.FOURGET_CACHE_MAXSIZE, DEFAULT_CACHE_MAXSIZE, TRUE, 1),
           ReadNumber(env.FOURGET_MAX_RETRIES, DEFAULT_MAX_RETRIES, TRUE, 0),
           ReadNumber(env.FOURGET_RETRY_BASE_DELAY, DEFAULT_RETRY_BASE_DELAY, TRUE, 10),
           ReadNumber(env.FOURGET_RETRY_MAX_DELAY, DEFAULT_RETRY_MAX_DELAY, TRUE, 100),
           ReadNumber(env.FOURGET_CONNECTION_POOL_MAXSIZE,
                      DEFAULT_CONNECTION_POOL_MAXSIZE, TRUE, 1),
           ReadNumber(env.FOURGET_CONNECTION_POOL_MAX_KEEPALIVE,
                      DEFAULT_CONNECTION_POOL_MAX_KEEPALIVE, TRUE, 1))

\* what a call that builds or checks a Config ends in: the Config it returns, or the
\* ValueError it raises
Returned(c) == [raised |-> FALSE, error |-> "None", config |-> c, client |-> FALSE]
Raised(e, c) == [raised |-> TRUE, error |-> e, config |-> c, client |-> FALSE]

\* c._validate()
Validated(c) == IF Validate(c) = "ok" THEN Returned(c) ELSE Raised(Validate(c), c)

\* the explicit values the callers construct a Config from
Configs ==
    {Config(u, t, ttl_s, size, n, b, m, p, k) :
        u \in Urls \ {"https://example.com/", DEFAULT_BASE_URL},
        t \in {-100, 0, 2000, NaN}, ttl_s \in {-100, 0, 60000},
        size \in {0, 1}, n \in {-1, 0}, b \in {0, 5, 1000}, m \in {0, 500, 6000},
        p \in {0, 5, 10}, k \in {0, 5, 10}}

\* the environments from_env is called in
Environments ==
    [FOURGET_BASE_URL : {"unset", "https://example.com/", "ftp://example.com"},
     FOURGET_TIMEOUT : {Unset, Raw("empty"), Raw("text"), Num(-100), Num(3000), Num(NaN)},
     FOURGET_CACHE_TTL : {Unset, Raw("text"), Num(-100), Num(0)},
     FOURGET_CACHE_MAXSIZE : {Unset, Num(0), Num(64)},
     FOURGET_MAX_RETRIES : {Unset, Num(-1), Num(5)},
     FOURGET_RETRY_BASE_DELAY : {Unset, Raw("text"), Num(5), Num(7000), Num(NaN)},
     FOURGET_RETRY_MAX_DELAY : {Unset, Num(50), Num(500)},
     FOURGET_CONNECTION_POOL_MAXSIZE : {Unset, Num(0), Num(3)},
     FOURGET_CONNECTION_POOL_MAX_KEEPALIVE : {Unset, Num(0), Num(4)}]

ConfigInit ==
    /\ NoClient
    /\ \/ \E c \in Configs : call = Pending("Config", c)
       \/ \E c \in Configs : call = Pending("_validate", c)
       \/ \E env \in Environments : call = Pending("from_env", env)

\* Config(**values): the object is built as given
Construct ==
    /\ call.fn = "Config" /\ ~call.done
    /\ call' = Done(call, Returned(call.arg))
    /\ UNCHANGED <<cacheVars, histVars, clientVars, concVars>>

\* Config(**values)._validate()
ValidateCall ==
    /\ call.fn = "_validate" /\ ~call.done
    /\ call' = Done(call, Validated(call.arg))
    /\ UNCHANGED <<cacheVars, histVars, clientVars, concVars>>

\* Config.from_env(): cls(...)._validate()
FromEnv ==
    /\ call.fn = "from_env" /\ ~call.done
    /\ call' = Done(call, Validated(EnvConfig(call.arg)))
    /\ UNCHANGED <<cacheVars, histVars, clientVars, concVars>>

\* FourGetClient(config) on the Config a call returned: the client keeps it and
\* builds its cache from it
NewClient ==
    /\ call.fn \in {"Config", "from_env"} /\ call.done
    /\ ~call.ret.raised /\ ~call.ret.client
    /\ call' = [call EXCEPT !.ret.client = TRUE]
    /\ ttl' = Max(call.ret.config.cache_ttl, 0)
    /\ maxsize' = Max(1, call.ret.config.cache_maxsize)
    /\ max_retries' = call.ret.config.max_retries
    /\ UNCHANGED <<entries, now, histVars, search, searches, concVars>>

ConfigNext == Construct \/ ValidateCall \/ FromEnv \/ NewClient

ConfigSpec == ConfigInit /\ [][ConfigNext]_vars

\* ---- the backoff delay (client.py, _calculate_backoff_delay)
\* random.random() draws from [0, 1): the draws taken are the multiples j / JitterSteps.
\* Delays are integers: the Config's delays in hundredths of a second, as above, and
\* the computed delay in the finer unit of 1 / DelayUnit of a hundredth, in which the
\* jitter delay * 0.25 * (2 * random - 1) is the integer delay * (2 * j - JitterSteps).
DelayUnit == 4 * JitterSteps

Min(a, b) == IF a <= b THEN a ELSE b

\* 2 ** attempt
RECURSIVE Pow2(_)
Pow2(n) == IF n = 0 THEN 1 ELSE 2 * Pow2(n - 1)

\* mutant of CalculateBackoffDelay: the delay is not capped at retry_max_delay
CalculateBackoffDelayUncapped(base_delay, max_delay, attempt, j) ==
    LET delay == base_delay * Pow2(attempt)
        jitter == delay * (2 * j - JitterSteps)
    IN Max(10 * DelayUnit, delay * DelayUnit + jitter)

\* _calculate_backoff_delay(attempt) on a Config with these two delays, when
\* random.random() gives j / JitterSteps; 0.1 s is 10 hundredths
CalculateBackoffDelay(base_delay, max_delay, attempt, j) ==
    LET delay == Min(base_delay * Pow2(attempt), max_delay)
        jitter == delay * (2 * j - JitterSteps)
    IN Max(10 * DelayUnit, delay * DelayUnit + jitter)

\* the retry delays of the valid Configs tried: 0.05 s, 0.1 s, 1 s and more
RetryDelays ==
    {d \in [base : {5, 10, DEFAULT_RETRY_BASE_DELAY},
            max : {5, 100, 250, DEFAULT_RETRY_MAX_DELAY}] :
        Validate(Config(DEFAULT_BASE_URL, DEFAULT_TIMEOUT_SECONDS, DEFAULT_CACHE_TTL_SECONDS,
                        DEFAULT_CACHE_MAXSIZE, DEFAULT_MAX_RETRIES, d.base, d.max,
                        DEFAULT_CONNECTION_POOL_MAXSIZE,
                        DEFAULT_CONNECTION_POOL_MAX_KEEPALIVE)) = "ok"}

BackoffInit ==
    /\ NoClient
    /\ \E d \in RetryDelays, attempt \in 0..MaxRetries, j \in 0..(JitterSteps - 1) :
          call = Pending("backoff", [base_delay |-> d.base, max_delay |-> d.max,
                                     attempt |-> attempt, j |-> j])

\* self._calculate_backoff_delay(attempt)
Backoff ==
    /\ call.fn = "backoff" /\ ~call.done
    /\ call' = Done(call, CalculateBackoffDelay(call.arg.base_delay, call.arg.max_delay,
                                                call.arg.attempt, call.arg.j))
    /\ UNCHANGED <<cacheVars, histVars, clientVars, concVars>>

BackoffSpec == BackoffInit /\ [][Backoff]_vars

\* ----------------------------------------------------------- server.py
\* A tool call: the tool's arguments go through combine_options to the client's search
\* method, and from there to the parameters of the request.  An argument that may be
\* None is None or Some(v).

\* two members of SearchEngine: the machine value and the display label
Engines ==
    {[value |-> "ddg", display_name |-> "DuckDuckGo"],
     [value |-> "brave", display_name |-> "Brave"]}

\* the extra_params dicts of at most MaxOptions items
ExtraDicts ==
    UNION {{d \in [1..n -> [key : {"scraper", "country", "extendedsearch"},
                            value : {"None", "ddg", "de", "True"}]] :
                \A i, j \in 1..n : d[i].key = d[j].key => i = j} : n \in 0..MaxOptions}

\* mutant of CombineOptions: a `scraper` among the extras is kept
CombineOptionsSetDefault(engine, extras) ==
    IF ~engine.some /\ (~extras.some \/ extras.value = <<>>) THEN None
    ELSE LET options == IF extras.some /\ extras.value # <<>> THEN extras.value ELSE <<>>
         IN Some(IF engine.some /\ ~DictHas(options, "scraper")
                 THEN DictSet(options, "scraper", engine.value.value)
                 ELSE options)

\* create_server.combine_options
CombineOptions(engine, extras) ==
    IF ~engine.some /\ (~extras.some \/ extras.value = <<>>) THEN None
    ELSE LET options == IF extras.some /\ extras.value # <<>> THEN extras.value ELSE <<>>
         IN Some(IF engine.some
                 THEN DictSet(options, "scraper", engine.value.value)
                 ELSE options)

\* the tools and the extended_search each hands to the client: fourget_web_search
\* always a bool, the other two nothing
Tools ==
    {[name |-> "fourget_web_search", extended_search |-> b] : b \in {"True", "False"}}
    \cup {[name |-> n, extended_search |-> "None"] :
             n \in {"fourget_image_search", "fourget_news_search"}}

ToolInit ==
    /\ NoClient
    /\ \E tool \in Tools, page_token \in {"None", "t"},
          engine \in {None} \cup {Some(e) : e \in Engines},
          extra_params \in {None} \cup {Some(d) : d \in ExtraDicts} :
          call = Pending("tool", [tool |-> tool, query |-> "q", page_token |-> page_token,
                                  engine |-> engine, extra_params |-> extra_params])

\* fourget_web_search, fourget_image_search or fourget_news_search up to the request:
\* the options handed to the client, and the parameters of the request
ToolCall ==
    /\ call.fn = "tool" /\ ~call.done
    /\ LET options == CombineOptions(call.arg.engine, call.arg.extra_params)
       IN call' = Done(call,
              [options |-> options,
               request |-> RequestParams(call.arg.query, call.arg.page_token,
                                         IF options.some THEN options.value ELSE <<>>,
                                         call.arg.tool.extended_search)])
    /\ UNCHANGED <<cacheVars, histVars, clientVars, concVars>>

ToolSpec == ToolInit /\ [][ToolCall]_vars

\* ------------------------------------------------------------ claims
\* lastOp describes an operation run at the current instant: `now` is its time.

\* the entries of es other than key k's, in order
Others(es, k) == SelectSeq(es, LAMBDA e : e.key # k)

\* C1: the store never holds more than maxsize entries (and holds one entry per key).
CapacityInvariant ==
    /\ Len(entries) <= maxsize
    /\ Cardinality(KeysOf(entries)) = Len(entries)

\* C1 witness: a set of a new key ran on a full store of at least two entries.
CapacityWitness ==
    /\ lastOp.op = "set" /\ lastOp.size = maxsize /\ lastOp.found = NoEntry
    /\ maxsize >= 2 /\ Len(entries) = maxsize

\* C2: get(k) returns a value only when the store held an unexpired entry for k, and
\* then that entry's value, which is the value of the most recent set(k); when the
\* store held an expired entry for k, get removed it and returned absent.
GetNeverStale ==
    lastOp.op = "get" =>
        LET k == lastOp.key
            f == lastOp.found
        IN /\ lastOp.ret.some =>
                /\ f.key = k /\ now < f.expires_at
                /\ lastOp.ret.value = f.value
                /\ lastSet[k].set /\ lastOp.ret.value = lastSet[k].value
           /\ (f.key = k /\ now >= f.expires_at) =>
                /\ lastOp.ret = None
                /\ k \notin KeysOf(entries)

\* C2 witness: a get found its key's entry expired and removed it.
GetNeverStaleWitness ==
    /\ lastOp.op = "get" /\ lastOp.found.key = lastOp.key /\ lastOp.ret = None
    /\ now >= lastOp.found.expires_at
    /\ lastOp.key \notin KeysOf(entries)

\* C3: with TTL > 0, a get(k) less than TTL after the most recent set(k, v), while
\* nothing has removed that entry (so in particular right after the set), returns v;
\* a get(k) at least TTL after the most recent set(k) returns absent and leaves k out
\* of the store.
SetThenGet ==
    (lastOp.op = "get" /\ ttl > 0 /\ lastSet[lastOp.key].set) =>
        LET k == lastOp.key
        IN /\ now < lastSet[k].at + ttl => lastOp.ret = Some(lastSet[k].value)
           /\ now >= lastSet[k].at + ttl =>
                /\ lastOp.ret = None
                /\ k \notin KeysOf(entries)

\* C3 witness: a key was set and then read back, TTL > 0, before the clock moved.
SetThenGetWitness ==
    /\ ttl > 0 /\ lastOp.op = "get" /\ lastOp.ret.some
    /\ lastSet[lastOp.key].set /\ lastSet[lastOp.key].at = now
    /\ lastOp.ret.value = lastSet[lastOp.key].value

\* C4: with TTL = 0 the store is always empty and no get returns a value.
ZeroTtlDisabled == ttl = 0 => (entries = <<>> /\ lastOp.ret = None)

\* C4 witness: TTL = 0, and a get of a key that was set before.
ZeroTtlWitness ==
    /\ ttl = 0 /\ lastOp.op = "get"
    /\ lastSet[lastOp.key].set

\* C5: a set on a full store (TTL > 0) removes exactly one entry before inserting, one
\* of least expires_at, and keeps the others; after max_size + 1 sets of distinct keys
\* on an empty store exactly max_size entries are stored and the first key is the one
\* missing.
EvictsSoonestExpiring ==
    /\ [][(now' = now /\ lastOp'.op = "set" /\ ttl > 0 /\ Len(entries) >= maxsize) =>
            \E i \in 1..Len(entries) :
                LET gone == entries[i].key
                    k == lastOp'.key
                IN /\ \A j \in 1..Len(entries) :
                          entries[i].expires_at <= entries[j].expires_at
                   /\ KeysOf(entries') = (KeysOf(entries) \ {gone}) \cup {k}
                   /\ Others(entries', k) = Others(Others(entries, gone), k)
         ]_vars
    /\ [](run.valid /\ ttl > 0 /\ Len(run.keys) = maxsize + 1 =>
            /\ Len(entries) = maxsize
            /\ KeysOf(entries) = {run.keys[i] : i \in 2..(maxsize + 1)})

\* C5 witness: max_size + 1 distinct keys were set on an empty store of capacity >= 2.
EvictionWitness ==
    /\ run.valid /\ ttl > 0 /\ maxsize >= 2
    /\ Len(run.keys) = maxsize + 1
    /\ lastOp.op = "set" /\ lastOp.size = maxsize

\* C6: clear leaves the store empty, and a get returns a value only for a key set
\* since the last clear.
ClearEmpties ==
    /\ lastOp.op = "clear" => entries = <<>>
    /\ (lastOp.op = "get" /\ lastOp.ret.some) => lastSet[lastOp.key].set

\* C6 witness: clear ran on a store that held entries.
ClearWitness == lastOp.op = "clear" /\ lastOp.size >= 2 /\ entries = <<>>

\* A search that went to the network: it is under way or over, and missed the cache.
Missed(s) == s.pc # "idle" /\ ~s.hit

\* C7: with max_retries >= 0, a search that missed the cache and got 429 from every
\* attempt never returns a result, and ends only after exactly max_retries + 1 HTTP
\* calls, raising FourGetAuthError.
Always429Exhausts ==
    \A t \in Tasks :
        LET s == search[t]
        IN (max_retries >= 0 /\ Missed(s) /\ s.got429 = s.got) =>
               /\ s.outcome # "returned"
               /\ s.calls <= max_retries + 1
               /\ s.pc = "done" =>
                      /\ s.calls = max_retries + 1
                      /\ s.got = max_retries + 1
                      /\ s.outcome = "raised"
                      /\ s.error = "FourGetAuthError"

\* C7 witness: three attempts, all answered 429, and the search is over.
Always429Witness ==
    \E t \in Tasks :
        /\ search[t].pc = "done" /\ max_retries = 2
        /\ search[t].got = 3 /\ search[t].got429 = 3

\* C8: with max_retries >= 0, when k <= max_retries attempts failed retryably (429,
\* connection failure or timeout) and the next one answered 2xx with status "ok", the
\* search has made exactly k + 1 HTTP calls, holds that response's body as its value
\* and, once over, has returned it.
RetryThenSuccess ==
    \A t \in Tasks :
        LET s == search[t]
        IN (/\ max_retries >= 0
            /\ IsSuccess(s.last) /\ s.last.body.json = "object" /\ s.last.body.status = "ok"
            /\ s.got429 + s.gotNet = s.got - 1
            /\ s.got - 1 <= max_retries) =>
               /\ s.pc \in {"store", "done"}
               /\ s.calls = s.got
               /\ s.value = s.last.body
               /\ s.pc = "done" => (s.outcome = "returned" /\ s.error = "None")

\* C8 witness: a 429 and a network failure, then success at the third attempt.
RetryThenSuccessWitness ==
    \E t \in Tasks :
        /\ search[t].pc = "done" /\ search[t].outcome = "returned"
        /\ search[t].got = 3 /\ search[t].got429 = 1 /\ search[t].gotNet = 1
        /\ search[t].calls = 3

\* C9: once an attempt is answered with a non-2xx status other than 429, the search is
\* over with FourGetTransportError: no HTTP call and no sleep follows that answer.
OtherStatusNotRetried ==
    \A t \in Tasks :
        LET s == search[t]
        IN (s.last.kind = "response" /\ ~IsSuccess(s.last) /\ s.last.code # 429) =>
               /\ s.pc = "done"
               /\ s.outcome = "raised" /\ s.error = "FourGetTransportError"
               /\ s.calls = s.got
               /\ s.sleeps = s.got - 1

\* C9 witness: a 404 at the second attempt, after a retried failure.
OtherStatusWitness ==
    \E t \in Tasks :
        /\ search[t].last.kind = "response" /\ search[t].last.code = 404
        /\ search[t].got = 2 /\ search[t].sleeps = 1

\* C10: with max_retries >= 0, a search that missed the cache and met a connection
\* failure or timeout at every attempt never returns a result, sleeps and retries
\* while attempts remain, and ends only after exactly max_retries + 1 HTTP calls,
\* raising FourGetTransportError.
NetworkFailureExhausts ==
    \A t \in Tasks :
        LET s == search[t]
        IN (max_retries >= 0 /\ Missed(s) /\ s.gotNet = s.got) =>
               /\ s.outcome # "returned"
               /\ s.calls <= max_retries + 1
               /\ s.pc = "done" =>
                      /\ s.calls = max_retries + 1
                      /\ s.got = max_retries + 1
                      /\ s.sleeps = max_retries
                      /\ s.outcome = "raised"
                      /\ s.error = "FourGetTransportError"

\* C10 witness: three attempts, all ended by a connection failure or timeout, the last
\* one a timeout.
NetworkFailureWitness ==
    \E t \in Tasks :
        /\ search[t].pc = "done" /\ max_retries = 2
        /\ search[t].got = 3 /\ search[t].gotNet = 3
        /\ search[t].last.kind = "TimeoutException"

\* the text, a sequence of formatted pieces, contains the string x
Contains(text, x) == x = "" \/ \E i \in 1..Len(text) : text[i] = x

\* C11: once an attempt is answered 2xx with a JSON object whose status is missing (no
\* key, or null) the search is over with the generic FourGetError; once it is answered
\* with a status that is there and is not "ok" the search is over with FourGetAPIError,
\* which carries that status and whose text contains the body's message.  In both cases
\* the answered call is the last one: no HTTP call and no sleep follows.
EnvelopeNotRetried ==
    \A t \in Tasks :
        LET s == search[t]
            data == s.last.body
        IN (IsSuccess(s.last) /\ data.json = "object" /\ DictGet(data.status) # "ok") =>
               /\ s.pc = "done" /\ s.outcome = "raised"
               /\ s.calls = s.got /\ s.sleeps = s.got - 1
               /\ data.status \in {"absent", "null"} => s.error = "FourGetError"
               /\ data.status \notin {"absent", "null"} =>
                      /\ s.error = "FourGetAPIError"
                      /\ s.args.status = data.status
                      /\ DictGet(data.message) # "None" =>
                             Contains(s.args.text, data.message)

\* C11 witness: after a retried failure, the second attempt is answered with status
\* "error" and message "X", and the search is over after those two calls.
EnvelopeNotRetriedWitness ==
    \E t \in Tasks :
        /\ search[t].last.body.status = "error" /\ search[t].last.body.message = "X"
        /\ search[t].got = 2 /\ search[t].calls = 2 /\ search[t].pc = "done"
        /\ search[t].error = "FourGetAPIError"

\* the first of the values vs that dict.get does not give None for; None if there is none
FirstNonNull(vs) ==
    IF \E i \in 1..Len(vs) : DictGet(vs[i]) # "None"
    THEN vs[CHOOSE i \in 1..Len(vs) :
                /\ DictGet(vs[i]) # "None"
                /\ \A j \in 1..(i - 1) : DictGet(vs[j]) = "None"]
    ELSE "None"

\* an envelope was inspected that has a status, and not "ok"
InspectedFailure ==
    /\ call.fn = "inspect" /\ call.done
    /\ call.arg.status \notin {"absent", "null", "ok"}

\* C12 as claimed: the message the API error carries is the first non-null of
\* `message`, `error` and `detail`, in that order.
MessageFirstNonNull ==
    InspectedFailure =>
        call.ret.args.message =
            FirstNonNull(<<call.arg.message, call.arg.error, call.arg.detail>>)

\* C12 amended: the message the API error carries is the first of `message`, `error`
\* and `detail`, in that order, that is neither absent, null nor the empty string;
\* when there is none it is what `detail` holds: the empty string if `detail` is the
\* empty string, and null otherwise.
MessageFirstNonEmpty ==
    InspectedFailure =>
        LET vs == <<call.arg.message, call.arg.error, call.arg.detail>>
            full == {i \in 1..3 : vs[i] \notin {"absent", "null", ""}}
            carried == call.ret.args.message
        IN /\ call.ret.error = "FourGetAPIError"
           /\ full # {} =>
                  \E i \in full : carried = vs[i] /\ \A j \in full : i <= j
           /\ full = {} => carried = (IF vs[3] = "" THEN "" ELSE "None")

\* C12 witness: `message` is the empty string and `error` a text; the error carries
\* the text of `error`.
MessageFirstNonEmptyWitness ==
    /\ InspectedFailure
    /\ call.arg.message = "" /\ call.arg.error = "e"
    /\ call.ret.args.message = "e"

\* C13: with TTL > 0, when a task's previous search returned a document for a key and
\* its next search asks for the same key less than TTL after that document was cached,
\* the next search returns the same document from the cache at once, without entering
\* the retry loop: it makes no HTTP call, so the two searches together make the calls
\* of the first, exactly one when the first was answered at its first attempt.  With
\* TTL = 0 no search is answered from the cache: every search that returns has made
\* HTTP calls of its own, exactly one when it was answered at its first attempt.
CacheHitShortCircuit ==
    /\ [][\A t \in Tasks :
            LET p == search[t].prev
                s == search'[t]
            IN (/\ search[t].pc = "idle" /\ s.pc # "idle"
                /\ ttl > 0 /\ p.set /\ s.key = p.key /\ now < p.at + ttl) =>
                   /\ s.hit /\ s.pc = "done" /\ s.outcome = "returned"
                   /\ s.value = p.value
                   /\ s.calls = 0 /\ s.attempt = 0 /\ s.sleeps = 0
                   /\ p.calls = 1 => p.calls + s.calls = 1
         ]_vars
    /\ [](ttl = 0 =>
            \A t \in Tasks :
                /\ ~search[t].hit
                /\ search[t].outcome = "returned" =>
                       /\ search[t].calls = search[t].got /\ search[t].calls >= 1
                       /\ search[t].got429 + search[t].gotNet = 0 => search[t].calls = 1)

\* C13 witness: the second search was answered from the cache, after the clock moved.
CacheHitWitness ==
    \E t \in Tasks :
        /\ searches = 2 /\ now >= 1 /\ ttl = 2
        /\ search[t].hit /\ search[t].pc = "done" /\ search[t].calls = 0
        /\ search[t].at = 0 /\ search[t].value.status = "ok"

\* a search call was made with a page token (a non-empty string)
CalledWithToken ==
    call.fn = "call_search" /\ call.done /\ NonEmpty(call.arg.page_token)

\* C14 as claimed: every search call given a page token sends `npt` equal to the token
\* and no `s`, whatever the query and the extra parameters.
PageTokenPrecedence ==
    CalledWithToken =>
        /\ DictHas(call.ret, "npt")
        /\ DictValue(call.ret, "npt") = call.arg.page_token
        /\ ~DictHas(call.ret, "s")

\* C14 amended: every search call given a page token sends `npt` and never
\* the query: `npt` is the token unless the extra parameters hold a non-null `npt`,
\* which then replaces it, and `s` is sent only if the extra parameters hold a
\* non-null `s`, with that value.
PageTokenUnlessOverridden ==
    CalledWithToken =>
        LET extra == NotNoneItems(call.arg.options)
        IN /\ DictHas(call.ret, "npt")
           /\ DictValue(call.ret, "npt") =
                  (IF DictHas(extra, "npt") THEN DictValue(extra, "npt")
                   ELSE call.arg.page_token)
           /\ DictHas(call.ret, "s") <=> DictHas(extra, "s")
           /\ DictHas(extra, "s") => DictValue(call.ret, "s") = DictValue(extra, "s")

\* C14 witness: a call with query "q", page token "t" and a `scraper` option sent
\* `npt` = "t" first and no `s`.
PageTokenWitness ==
    /\ call.fn = "call_search" /\ call.done
    /\ call.arg.query = "q" /\ call.arg.page_token = "t"
    /\ call.arg.options = <<[key |-> "scraper", value |-> "x"]>>
    /\ call.ret[1] = [key |-> "npt", value |-> "t"]
    /\ ~DictHas(call.ret, "s")

\* a complete envelope with status "ok": a whole JSON object as the server sent it
OkEnvelope(v) == v \in Bodies /\ v.json = "object" /\ v.status = "ok"

\* C15: a search that is over has either returned or raised; whatever it returned,
\* from the network or from the cache, is a complete envelope with status "ok" (from
\* the network: the body of the last answer), a search that raised returned nothing,
\* and every value held by the cache is such an envelope.
NoPartialResults ==
    /\ \A t \in Tasks :
           LET s == search[t]
           IN /\ s.pc = "done" => s.outcome \in {"returned", "raised"}
              /\ s.outcome = "returned" =>
                     /\ OkEnvelope(s.value) /\ s.error = "None"
                     /\ ~s.hit => s.value = s.last.body
              /\ s.outcome = "raised" => (s.error # "None" /\ s.value = NoBody)
    /\ \A i \in 1..Len(entries) : OkEnvelope(entries[i].value)

\* C15 witness: a search returned an envelope from the cache, which holds one entry.
NoPartialResultsWitness ==
    \E t \in Tasks :
        /\ search[t].outcome = "returned" /\ search[t].hit
        /\ search[t].value.doc = 2 /\ Len(entries) = 1

\* C16 as claimed: whatever the attempts ended in, a search that does not return
\* raises an error of one of the four kinds auth, API, transport or generic.
AllFailuresTyped ==
    \A t \in Tasks : search[t].outcome = "raised" => search[t].error \in
            {"FourGetError", "FourGetAuthError", "FourGetAPIError", "FourGetTransportError"}

\* C17 as claimed: a Config built from explicit values that break a validation rule
\* raises at construction, so every Config that exists, and every Config a client is
\* built on, passes validation.
ValidatedAtConstruction ==
    /\ (call.fn = "Config" /\ call.done /\ Validate(call.arg) # "ok") => call.ret.raised
    /\ (call.fn \in {"Config", "from_env"} /\ call.done /\ ~call.ret.raised) =>
           Validate(call.ret.config) = "ok"

\* the rules of validation, as the claim lists them
Accepts(c) ==
    /\ Urlparse(c.base_url).scheme \in {"http", "https"}
    /\ Urlparse(c.base_url).netloc # ""
    /\ Gt(c.timeout, 0)
    /\ Le(0, c.cache_ttl)
    /\ c.cache_maxsize >= 1
    /\ c.max_retries >= 0
    /\ Gt(c.retry_base_delay, 0)
    /\ Gt(c.retry_max_delay, 0) /\ Le(c.retry_base_delay, c.retry_max_delay)
    /\ c.connection_pool_maxsize >= 1
    /\ c.connection_pool_max_keepalive >= 1
    /\ c.connection_pool_max_keepalive <= c.connection_pool_maxsize

\* the rule the error message e names is broken by c
Offends(c, e) ==
    CASE e = "Invalid base_url" ->
             Urlparse(c.base_url).scheme = "" \/ Urlparse(c.base_url).netloc = ""
      [] e = "base_url must use http or https scheme" ->
             Urlparse(c.base_url).scheme \notin {"http", "https"}
      [] e = "timeout must be positive" -> Le(c.timeout, 0)
      [] e = "cache_ttl must be non-negative" -> Lt(c.cache_ttl, 0)
      [] e = "cache_maxsize must be at least 1" -> c.cache_maxsize < 1
      [] e = "max_retries must be non-negative" -> c.max_retries < 0
      [] e = "retry_base_delay must be positive" -> Le(c.retry_base_delay, 0)
      [] e = "retry_max_delay must be positive" -> Le(c.retry_max_delay, 0)
      [] e = "retry_base_delay must not exceed retry_max_delay" ->
             Gt(c.retry_base_delay, c.retry_max_delay)
      [] e = "connection_pool_maxsize must be at least 1" -> c.connection_pool_maxsize < 1
      [] e = "connection_pool_max_keepalive must be at least 1" ->
             c.connection_pool_max_keepalive < 1
      [] e = "connection_pool_max_keepalive must not exceed connection_pool_maxsize" ->
             c.connection_pool_max_keepalive > c.connection_pool_maxsize
      [] OTHER -> FALSE

\* C18 as claimed: _validate returns the Config if and only if the base URL has scheme
\* http or https and a non-empty host, timeout > 0, cache TTL >= 0, cache size >= 1,
\* max retries >= 0, base delay > 0, max delay > 0 and >= base delay, pool size >= 1
\* and 1 <= keepalive <= pool size; otherwise it raises an error that names a rule the
\* Config breaks: the scheme error for ftp, the ordering error for a base delay above
\* the max delay, the pool-ordering error for a keepalive above the pool size, when
\* no earlier rule is broken.
ValidateIff ==
    (call.fn = "_validate" /\ call.done) =>
        LET c == call.arg
        IN /\ ~call.ret.raised <=> Accepts(c)
           /\ ~call.ret.raised => call.ret.config = c
           /\ call.ret.raised => Offends(c, call.ret.error)
           /\ (Urlparse(c.base_url).scheme = "ftp" /\ Urlparse(c.base_url).netloc # "") =>
                  call.ret.error = "base_url must use http or https scheme"
           /\ (Accepts([c EXCEPT !.retry_max_delay = c.retry_base_delay])
                 /\ Gt(c.retry_max_delay, 0) /\ Gt(c.retry_base_delay, c.retry_max_delay)) =>
                  call.ret.error = "retry_base_delay must not exceed retry_max_delay"
           /\ (Accepts([c EXCEPT !.connection_pool_max_keepalive = 1])
                 /\ c.connection_pool_max_keepalive > c.connection_pool_maxsize) =>
                  call.ret.error =
                      "connection_pool_max_keepalive must not exceed connection_pool_maxsize"

\* from_env was called in an environment whose base URL is a valid one
FromEnvDone ==
    /\ call.fn = "from_env" /\ call.done
    /\ call.arg.FOURGET_BASE_URL \in {"unset", "https://example.com/"}

\* C19 as claimed: whatever the numeric variables of the environment hold, from_env
\* returns a Config, a valid one, instead of raising.
FromEnvNeverRaises ==
    FromEnvDone => (~call.ret.raised /\ Accepts(call.ret.config))

\* the value read from the variable raw: the number it holds if it holds one and that
\* number is allowed, else the default
Fallback(raw, default, allowed) ==
    IF raw.kind = "number" /\ allowed THEN raw.n ELSE default

\* C19 amended: from the environment, a numeric value that is unset, empty or no
\* number falls back to the default, and so does a cache size < 1, a max retries < 0,
\* a retry base delay < 0.1, a retry max delay < 1.0, a pool size < 1 and a pool
\* keepalive < 1.  A timeout <= 0, a cache TTL < 0, a base delay above the max delay
\* and a keepalive above the pool size are kept as read, and from_env raises
\* ValueError exactly when one of these four holds of the values read; otherwise it
\* returns the Config of the values read, which is valid unless one of them is NaN.
FromEnvFallsBackOrRaises ==
    FromEnvDone =>
        LET env == call.arg
            c == call.ret.config
        IN /\ c.timeout = Fallback(env.FOURGET_TIMEOUT, DEFAULT_TIMEOUT_SECONDS, TRUE)
           /\ c.cache_ttl = Fallback(env.FOURGET_CACHE_TTL, DEFAULT_CACHE_TTL_SECONDS, TRUE)
           /\ c.cache_maxsize = Fallback(env.FOURGET_CACHE_MAXSIZE, DEFAULT_CACHE_MAXSIZE,
                                         env.FOURGET_CACHE_MAXSIZE.n >= 1)
           /\ c.max_retries = Fallback(env.FOURGET_MAX_RETRIES, DEFAULT_MAX_RETRIES,
                                       env.FOURGET_MAX_RETRIES.n >= 0)
           /\ c.retry_base_delay =
                  Fallback(env.FOURGET_RETRY_BASE_DELAY, DEFAULT_RETRY_BASE_DELAY,
                           ~Lt(env.FOURGET_RETRY_BASE_DELAY.n, 10))
           /\ c.retry_max_delay =
                  Fallback(env.FOURGET_RETRY_MAX_DELAY, DEFAULT_RETRY_MAX_DELAY,
                           ~Lt(env.FOURGET_RETRY_MAX_DELAY.n, 100))
           /\ c.connection_pool_maxsize =
                  Fallback(env.FOURGET_CONNECTION_POOL_MAXSIZE,
                           DEFAULT_CONNECTION_POOL_MAXSIZE,
                           env.FOURGET_CONNECTION_POOL_MAXSIZE.n >= 1)
           /\ c.connection_pool_max_keepalive =
                  Fallback(env.FOURGET_CONNECTION_POOL_MAX_KEEPALIVE,
                           DEFAULT_CONNECTION_POOL_MAX_KEEPALIVE,
                           env.FOURGET_CONNECTION_POOL_MAX_KEEPALIVE.n >= 1)
           /\ call.ret.raised <=>
                  \/ Le(c.timeout, 0)
                  \/ Lt(c.cache_ttl, 0)
                  \/ Gt(c.retry_base_delay, c.retry_max_delay)
                  \/ c.connection_pool_max_keepalive > c.connection_pool_maxsize
           /\ ~call.ret.raised =>
                  \/ Accepts(c)
                  \/ NaN \in {c.timeout, c.cache_ttl, c.retry_base_delay, c.retry_max_delay}

\* C19 witness: a timeout that is no number, a cache size of 0 and a max retries of -1
\* fell back to the defaults and from_env returned a Config.
FromEnvFallbackWitness ==
    /\ FromEnvDone /\ ~call.ret.raised
    /\ call.arg.FOURGET_TIMEOUT = Raw("text")
    /\ call.arg.FOURGET_CACHE_MAXSIZE = Num(0)
    /\ call.arg.FOURGET_MAX_RETRIES = Num(-1)
    /\ call.ret.config.timeout = DEFAULT_TIMEOUT_SECONDS
    /\ call.ret.config.cache_maxsize = DEFAULT_CACHE_MAXSIZE
    /\ call.ret.config.max_retries = DEFAULT_MAX_RETRIES

\* operation t is inside `async with self._lock`
InCritical(t) == worker[t].pc \in {"body", "commit"}

\* C20: get, set and clear are mutually exclusive: an operation inside the locked
\* section holds the lock, so no two operations are inside at once.  Every concurrent execution
\* equals a sequential one of whole operations: whenever the lock is free the store is
\* what the completed operations leave when run whole, one after the other, in the
\* order they completed, and the operation completed last returned what it returns
\* in that sequential run.  No set is lost: while only gets and sets of distinct keys have been called,
\* the keys no more than the capacity, every completed set's key is stored with that
\* set's value and expiry time until it expires.
AtomicCacheOperations ==
    /\ \A t \in Workers : InCritical(t) => lock = t
    /\ \A t, u \in Workers : (InCritical(t) /\ InCritical(u)) => t = u
    /\ lock = 0 => entries = serial.entries
    /\ serial.ret = serial.want
    /\ (serial.plain /\ Cardinality(serial.started) <= maxsize) =>
           \A k \in Queries :
               (serial.sets[k].done /\ now < serial.sets[k].expires_at) =>
                   \E i \in 1..Len(entries) :
                       entries[i] = CacheEntry(k, serial.sets[k].value,
                                               serial.sets[k].expires_at)

\* C20 witness: two sets of distinct keys run at once, within capacity: one is inside
\* the locked section, about to store its entry, while the other waits for the lock.
AtomicCacheWitness ==
    \E t, u \in Workers :
        /\ t # u /\ maxsize >= 2 /\ serial.plain
        /\ worker[t].op = "set" /\ worker[t].pc = "commit" /\ lock = t
        /\ worker[u].op = "set" /\ worker[u].pc = "acquire"
        /\ worker[u].key # worker[t].key

\* the searches of tasks t and u asked for the same key, both missed the cache and both
\* went to the network
BothMissed(t, u) ==
    /\ t # u /\ search[t].pc # "idle" /\ search[u].pc # "idle"
    /\ search[t].key = search[u].key
    /\ ~search[t].hit /\ ~search[u].hit
    /\ search[t].calls >= 1 /\ search[u].calls >= 1

\* the entries es hold exactly one entry for key k, and it is e
OnlyEntry(es, k, e) ==
    /\ Cardinality({i \in 1..Len(es) : es[i].key = k}) = 1
    /\ \E i \in 1..Len(es) : es[i] = e

\* C21: nothing keeps two searches for one key from both missing the cache and both
\* calling the server.  When they do, each of them still completes, provided every GET
\* is answered and every sleep ends; with TTL > 0 every set of a returning search
\* leaves exactly one entry for the key, its own, so once both have returned the cache
\* holds exactly one entry for the key, that of the search whose set came later.
NoDeduplication ==
    /\ [][\A t \in Racers :
            (search[t].pc = "store" /\ search'[t].pc = "done" /\ ttl > 0) =>
                OnlyEntry(entries', search[t].key,
                          CacheEntry(search[t].key, search[t].value, now + ttl))
         ]_vars
    /\ [](\A t, u \in Racers :
            (/\ BothMissed(t, u) /\ ttl > 0
             /\ search[t].outcome = "returned" /\ search[u].outcome = "returned"
             /\ search[t].at <= search[u].at) =>
                \/ OnlyEntry(entries, search[u].key,
                             CacheEntry(search[u].key, search[u].value, search[u].at + ttl))
                \/ /\ search[t].at = search[u].at
                   /\ OnlyEntry(entries, search[t].key,
                                CacheEntry(search[t].key, search[t].value,
                                           search[t].at + ttl)))
    /\ \A t \in Racers : (search[t].pc # "idle") ~> (search[t].pc = "done")

\* C21 witness: two searches for one key were in flight together (each cached its
\* document less than TTL after the other, so neither began after the other's set),
\* both got a document, a different one each, and the cache holds one entry.
NoDeduplicationWitness ==
    \E t, u \in Racers :
        /\ BothMissed(t, u) /\ ttl > 0 /\ Len(entries) = 1
        /\ search[t].outcome = "returned" /\ search[u].outcome = "returned"
        /\ search[t].at = search[u].at
        /\ search[t].value.doc = 1 /\ search[u].value.doc = 2
        /\ entries[1].value.doc = 2

\* what a retryable attempt ends in: status 429, a connection failure or a timeout
Retryable(r) ==
    \/ r.kind = "response" /\ r.code = 429
    \/ r.kind \in {"ConnectError", "TimeoutException"}

\* C22: with max_retries >= 0, whatever the attempts end in, a search never makes more
\* than max_retries + 1 HTTP calls; provided every HTTP exchange and every sleep ends,
\* a search that was started ends, having returned or raised; and when it raised on a
\* retryable failure (429, connection failure, timeout), that failure was the outcome
\* of the last allowed attempt, the one numbered max_retries.
BoundedRetry ==
    /\ [](\A t \in Tasks :
            max_retries >= 0 =>
                /\ search[t].calls <= max_retries + 1
                /\ (search[t].outcome = "raised" /\ Retryable(search[t].last)) =>
                       /\ search[t].attempt = max_retries
                       /\ search[t].got = max_retries + 1)
    /\ \A t \in Tasks :
           (max_retries >= 0 /\ search[t].pc # "idle") ~>
               (search[t].pc = "done" /\ search[t].outcome \in {"returned", "raised"})

\* C22 witness: with max_retries = 2, two rate limits and then a connection failure:
\* the search made three calls and raised the error of the third.
BoundedRetryWitness ==
    \E t \in Tasks :
        /\ max_retries = 2 /\ search[t].pc = "done" /\ search[t].outcome = "raised"
        /\ search[t].calls = 3 /\ search[t].got429 = 2
        /\ search[t].last.kind = "ConnectError"
        /\ search[t].error = "FourGetTransportError"

\* a backoff delay was computed
BackoffDone == call.fn = "backoff" /\ call.done

\* C23 as claimed: for every attempt n, valid pair of delays and jitter draw the
\* computed delay lies within [0.75 * base * 2^n, 1.25 * base * 2^n], is at most
\* 1.25 * max_delay and is at least 0.1 s.
BackoffWithinBounds ==
    BackoffDone =>
        LET raw == call.arg.base_delay * Pow2(call.arg.attempt)
        IN /\ 4 * call.ret >= 3 * raw * DelayUnit
           /\ 4 * call.ret <= 5 * raw * DelayUnit
           /\ 4 * call.ret <= 5 * call.arg.max_delay * DelayUnit
           /\ call.ret >= 10 * DelayUnit

\* C23 amended: the computed delay is at least 0.1 s; with d the smaller of
\* base * 2^n and max_delay, a delay above 0.1 s lies within [0.75 * d, 1.25 * d], so
\* it is at most 1.25 * base * 2^n and at most 1.25 * max_delay, and a delay of 0.1 s
\* is computed only when 0.75 * d is at most 0.1 s; hence the delay is at least
\* 0.75 * base * 2^n whenever base * 2^n does not exceed max_delay.
BackoffWithinCappedBounds ==
    BackoffDone =>
        LET raw == call.arg.base_delay * Pow2(call.arg.attempt)
            d == Min(raw, call.arg.max_delay)
            floor == 10 * DelayUnit
        IN /\ call.ret >= floor
           /\ call.ret > floor =>
                  /\ 4 * call.ret >= 3 * d * DelayUnit
                  /\ 4 * call.ret <= 5 * d * DelayUnit
                  /\ 4 * call.ret <= 5 * raw * DelayUnit
                  /\ 4 * call.ret <= 5 * call.arg.max_delay * DelayUnit
           /\ call.ret = floor => 3 * d * DelayUnit <= 4 * floor
           /\ raw <= call.arg.max_delay => 4 * call.ret >= 3 * raw * DelayUnit

\* C23 witness: base 1 s, max 2.5 s, attempt 2 and the lowest jitter draw: 4 s is
\* capped at 2.5 s and the delay is 0.75 * 2.5 s.
BackoffCappedWitness ==
    /\ BackoffDone
    /\ call.arg.base_delay = 100 /\ call.arg.max_delay = 250 /\ call.arg.attempt = 2
    /\ call.arg.j = 0
    /\ 4 * call.ret = 3 * 250 * DelayUnit

\* the items of the dict d whose key is not `scraper`, in order
NotScraper(d) == SelectSeq(d, LAMBDA it : it.key # "scraper")

\* a tool was called with an engine
CalledWithEngine == call.fn = "tool" /\ call.done /\ call.arg.engine.some

\* C24: for every tool call with an engine, the request's `scraper` parameter is the
\* engine's machine value, whether or not the extra parameters hold a `scraper` of
\* their own, and the tool hands every other extra parameter on to the client as it
\* is, in the same order, adding nothing else; an extra parameter the client does not
\* set itself (`country`), when not null, is in the request with the value the
\* client's normalization gives it.
EngineWins ==
    CalledWithEngine =>
        LET engine == call.arg.engine.value
            extras == IF call.arg.extra_params.some THEN call.arg.extra_params.value
                      ELSE <<>>
        IN /\ DictHas(call.ret.request, "scraper")
           /\ DictValue(call.ret.request, "scraper") = engine.value
           /\ call.ret.options.some
           /\ DictValue(call.ret.options.value, "scraper") = engine.value
           /\ NotScraper(call.ret.options.value) = NotScraper(extras)
           /\ (DictHas(extras, "country") /\ DictValue(extras, "country") # "None") =>
                  /\ DictHas(call.ret.request, "country")
                  /\ DictValue(call.ret.request, "country") =
                         DictValue(NormalizeParams(extras), "country")

\* C24 witness: engine brave with extra parameters {scraper: ddg, country: de}: the
\* request asks for scraper brave and country de.
EngineWinsWitness ==
    /\ CalledWithEngine /\ call.arg.engine.value.value = "brave"
    /\ call.arg.extra_params =
           Some(<<[key |-> "scraper", value |-> "ddg"], [key |-> "country", value |-> "de"]>>)
    /\ DictValue(call.ret.request, "scraper") = "brave"
    /\ DictValue(call.ret.request, "country") = "de"

\* the second of the two searches has looked its key up in the cache
SecondLookedUp == call.fn = "second_search" /\ call.done

\* every value of the parameters is a str
AllStr(params) == \A i \in 1..Len(params) : params[i].value \notin {"None", "True", "False", "int:1"}

ExpiryForcesRefetch ==
    \A t \in Tasks :
        LET s == search[t]
        IN s.old # NoBody =>
               /\ ~s.hit /\ s.calls >= 1 /\ s.got >= s.calls - 1
               /\ s.pc \in {"inflight", "sleep", "store"} => s.key \notin KeysOf(entries)
               /\ s.outcome = "returned" =>
                      /\ s.value = s.last.body
                      /\ OnlyEntry(entries, s.key, CacheEntry(s.key, s.value, s.at + ttl))

\* C26 witness: the first search cached document 1; after the TTL had elapsed the same
\* search was answered with document 2, returned it, and the cache holds document 2.
ExpiryRefetchWitness ==
    \E t \in Tasks :
        /\ search[t].old.doc = 1 /\ search[t].outcome = "returned"
        /\ search[t].calls = 1 /\ search[t].value.doc = 2
        /\ Len(entries) = 1 /\ entries[1].value.doc = 2 /\ entries[1].key = search[t].key

\* the names of a dict's items, in order
DictKeys(d) == [i \in 1..Len(d) |-> d[i].key]

\* C27: the normalized parameters hold no null value, no boolean and no Enum member;
\* they hold, in the original order, the names of the parameters whose value is not
\* null, each with "true" for True, "false" for False, the member's value for an Enum
\* member and the original value otherwise; and both the cache key and the query string
\* of the request carry exactly these names and values.
NormalizedParams ==
    (call.fn = "_search" /\ call.done) =>
        LET params == call.arg.params
            given == SelectSeq(params, LAMBDA it : it.value # "None")
            normalized == call.ret.normalized_params
        IN /\ \A i \in 1..Len(normalized) :
                  normalized[i].value \notin {"None", "True", "False"} \cup EnumMembers
           /\ DictKeys(normalized) = DictKeys(given)
           /\ \A i \in 1..Len(given) :
                  normalized[i].value =
                      CASE given[i].value = "True" -> "true"
                        [] given[i].value = "False" -> "false"
                        [] given[i].value = "SearchEngine.BRAVE" -> "brave"
                        [] OTHER -> given[i].value
           /\ call.ret.cache_key[2] = call.ret.request.query
           /\ call.ret.request.query =
                  [i \in 1..Len(normalized) |-> <<normalized[i].key, normalized[i].value>>]

\* C27 witness: {scraper: None, extendedsearch: True} is sent without the null value
\* and with extendedsearch = true.
NormalizedParamsWitness ==
    /\ call.fn = "_search" /\ call.done
    /\ call.arg.params = <<[key |-> "scraper", value |-> "None"],
                           [key |-> "extendedsearch", value |-> "True"]>>
    /\ call.ret.request.query = <<(<<"extendedsearch", "true">>)>>

\* C28: a search is attempting (a GET is in flight), sleeping or over.  While the k-th
\* GET is in flight, the k - 1 attempts before it all failed retryably and exactly
\* k - 1 sleeps have ended, none before the first attempt.  A sleep follows only a
\* retryable failure of an attempt that is not the last allowed one, and its delay is
\* the one computed for that attempt.  A search that is over after r >= 1 attempts has
\* slept exactly r - 1 times: no sleep followed its last attempt, whether that ended
\* in success, in a failure that is not retried or in the failure of the last allowed
\* attempt; a search that made no attempt has not slept.
RetryStateMachine ==
    \A t \in Tasks :
        LET s == search[t]
        IN /\ s.pc \in {"idle", "inflight", "sleep", "store", "done"}
           /\ s.pc = "inflight" =>
                  /\ s.calls = s.attempt + 1 /\ s.got = s.calls - 1
                  /\ s.sleeps = s.calls - 1
                  /\ s.got429 + s.gotNet = s.got
                  /\ s.sleeps >= 1 => s.delay_of = s.attempt - 1
           /\ s.pc = "sleep" =>
                  /\ Retryable(s.last)
                  /\ s.attempt < max_retries
                  /\ s.got = s.calls /\ s.calls = s.attempt + 1
                  /\ s.sleeps = s.attempt
                  /\ s.delay_of = s.attempt
           /\ s.pc \in {"store", "done"} =>
                  /\ s.got = s.calls
                  /\ s.calls >= 1 => s.sleeps = s.calls - 1
                  /\ s.calls = 0 => s.sleeps = 0
                  /\ s.got429 + s.gotNet >= s.sleeps
                  /\ s.sleeps >= 1 => s.delay_of = s.sleeps - 1

\* C28 witness: two retryable failures, each followed by a sleep, then a failure that
\* is not retried: three attempts, two sleeps, the second with the delay of attempt 1.
RetryStateMachineWitness ==
    \E t \in Tasks :
        /\ search[t].pc = "done" /\ search[t].calls = 3 /\ search[t].sleeps = 2
        /\ search[t].delay_of = 1 /\ search[t].last.kind = "HTTPError"

\* C29: with max_retries >= 0, whatever the attempts end in, the lines after the retry
\* loop are never run: a search that went to the network and is over left _request
\* from inside the loop, on the return of the answered envelope or on the error raised
\* for its last attempt, and never on the re-raised last exception or on 'Unexpected
\* error in retry loop'.
LoopNeverFallsThrough ==
    \A t \in Tasks :
        LET s == search[t]
        IN max_retries >= 0 =>
               /\ ~s.fell
               /\ (Missed(s) /\ s.pc \in {"store", "done"}) =>
                      /\ s.calls >= 1 /\ s.got = s.calls
                      /\ s.attempt = s.calls - 1 /\ s.attempt <= max_retries
                      /\ s.pc = "store" \/ s.outcome \in {"returned", "raised"}
                      /\ s.outcome = "raised" =>
                             s.error = (IF Retryable(s.last)
                                        THEN s.last_exception
                                        ELSE s.error)

\* C29 witness: with max_retries = 1 both attempts timed out; the search raised the
\* transport error from inside the loop's second iteration.
LoopNeverFallsThroughWitness ==
    \E t \in Tasks :
        /\ max_retries = 1 /\ search[t].pc = "done" /\ search[t].outcome = "raised"
        /\ search[t].calls = 2 /\ search[t].gotNet = 2 /\ search[t].attempt = 1
        /\ ~search[t].fell /\ search[t].last.kind = "TimeoutException"

\* C30: a search that ends in an error leaves the cache as it was before the search,
\* apart from the expired entry of its key that the initial lookup removed; and when a
\* task's previous search ended in an error, its next search for the same key misses
\* the cache and issues an HTTP call.
FailuresNeverCached ==
    [][\A t \in Tasks :
           LET s == search[t]
               n == search'[t]
           IN /\ (n.outcome = "raised" /\ s.outcome # "raised") =>
                     /\ entries' = (IF s.pc = "idle"
                                    THEN GetEntries(entries, n.key, now)
                                    ELSE entries)
                     /\ n.key \notin KeysOf(entries')
              /\ (s.pc = "idle" /\ n.pc # "idle" /\ s.prev.failed /\ n.key = s.prev.key) =>
                     /\ ~n.hit /\ n.calls = 1 /\ n.pc = "inflight"
      ]_vars

\* C31: when a search that missed the cache has used all max_retries + 1 attempts and
\* every one of them failed retryably (status 429, connection failure or timeout, in
\* any mixture), the error it raises is decided by the last attempt alone:
\* FourGetAuthError when the last attempt got 429, FourGetTransportError when the last
\* attempt was a connection failure or a timeout.
LastAttemptDecides ==
    \A t \in Tasks :
        LET s == search[t]
        IN (/\ max_retries >= 0 /\ Missed(s) /\ s.pc = "done"
            /\ s.got = max_retries + 1
            /\ s.got429 + s.gotNet = s.got) =>
               /\ s.outcome = "raised"
               /\ (s.last.kind = "response" /\ s.last.code = 429) =>
                      s.error = "FourGetAuthError"
               /\ s.last.kind \in {"ConnectError", "TimeoutException"} =>
                      s.error = "FourGetTransportError"
               /\ s.error = s.last_exception

\* C31 witness: with max_retries = 2 the attempts met a connection failure or timeout
\* once and 429 twice, the last of them 429; the search raised FourGetAuthError.
LastAttemptDecidesWitness ==
    \E t \in Tasks :
        /\ max_retries = 2 /\ search[t].pc = "done" /\ search[t].got = 3
        /\ search[t].got429 = 2 /\ search[t].gotNet = 1
        /\ search[t].last.code = 429 /\ search[t].error = "FourGetAuthError"

\* C32: when the store is full (TTL > 0) and set(k, v) is called for a key k that is
\* stored, the first entry of least expires_at is removed before k is written, though
\* no slot is needed: when that entry is another key's, that key is lost, the keys
\* besides it stay, and the store ends with max_size - 1 entries; when it is k's own,
\* the store keeps its keys.  Either way k then holds v, expiring TTL from now.
OverwriteStillEvicts ==
    [][LET k == lastOp'.key
       IN (/\ lastOp'.op = "set" /\ ttl > 0
           /\ Len(entries) = maxsize /\ k \in KeysOf(entries)) =>
              \E i \in 1..Len(entries) :
                  LET gone == entries[i].key
                  IN /\ \A j \in 1..Len(entries) :
                            entries[i].expires_at <= entries[j].expires_at
                     /\ \A j \in 1..(i - 1) : entries[j].expires_at > entries[i].expires_at
                     /\ KeysOf(entries') = (KeysOf(entries) \ {gone}) \cup {k}
                     /\ Others(entries', k) = Others(Others(entries, gone), k)
                     /\ gone # k => /\ Len(entries') = maxsize - 1
                                    /\ gone \notin KeysOf(entries')
                     /\ gone = k => Len(entries') = maxsize
                     /\ entries'[Lookup(entries', k)] = CacheEntry(k, lastOp'.value, now + ttl)
      ]_vars

\* C32 witness: a set of a stored key ran on a full store of two entries or more and
\* left one entry less: another key was lost.
OverwriteEvictsWitness ==
    /\ lastOp.op = "set" /\ lastOp.found.key = lastOp.key
    /\ lastOp.size = maxsize /\ maxsize >= 2 /\ ttl > 0
    /\ Len(entries) = maxsize - 1 /\ lastOp.key \in KeysOf(entries)

EvictsExpiredFirst ==
    [][LET k == lastOp'.key
           stale == {i \in 1..Len(entries) : entries[i].expires_at <= now}
       IN /\ (lastOp'.op = "set" /\ ttl > 0 /\ Len(entries) >= maxsize /\ stale # {}) =>
                 \E i \in stale :
                     /\ KeysOf(entries') = (KeysOf(entries) \ {entries[i].key}) \cup {k}
                     /\ Others(entries', k) = Others(Others(entries, entries[i].key), k)
          /\ \A i \in stale :
                 \/ entries[i] \in {entries'[j] : j \in 1..Len(entries')}
                 \/ lastOp'.op = "get" /\ k = entries[i].key
                 \/ lastOp'.op = "set" /\ Len(entries) >= maxsize
                 \/ lastOp'.op = "set" /\ k = entries[i].key
                 \/ lastOp'.op = "clear"
      ]_vars

\* C34 witness: a full store of two entries held an expired entry and an unexpired
\* one; a set of the expired entry's key evicted that entry, and the unexpired entry
\* is still stored.
EvictsExpiredFirstWitness ==
    /\ lastOp.op = "set" /\ lastOp.size = 2 /\ maxsize = 2 /\ ttl > 0
    /\ lastOp.found.key = lastOp.key /\ lastOp.found.expires_at <= now
    /\ Len(entries) = 2
    /\ \E i \in 1..2 : /\ entries[i].key # lastOp.key
                       /\ entries[i].expires_at > now
                       /\ entries[i].expires_at < now + ttl

\* C35: under the event loop no operation of the cache is suspended between taking and
\* releasing the lock: whenever the running task is suspended or has returned, so that
\* another task can run, the lock is free; the only task that is under way while the
\* lock is held is the holder; a task that reaches the acquisition finds the lock
\* free; and every operation that is called returns.
NoSuspensionUnderLock ==
    /\ [](\A t \in Workers : InCritical(t) <=> lock = t)
    /\ []((\A t \in Workers : Suspended(t)) => lock = 0)
    /\ [](\A t, u \in Workers : (lock = t /\ u # t) => worker[u].pc = "idle")
    /\ [](\A t \in Workers : worker[t].pc = "acquire" => lock = 0)
    /\ \A t \in Workers : (worker[t].pc # "idle") ~> (worker[t].pc = "idle")

\* C35 witness: the second operation called, a set, is under the lock, about to store
\* its entry; the first, a set as well, has returned.
NoSuspensionWitness ==
    /\ serial.ops = 2 /\ lock = 2 /\ worker[2].pc = "commit" /\ worker[2].op = "set"
    /\ worker[1].pc = "idle" /\ serial.sets[1].done /\ worker[2].key = 2

\* C36: the cache key carries the parameters in the order of the dict: when two
\* searches on one endpoint have the same normalized name/value pairs in a different
\* order, their keys differ and the second is not answered from the cache, so it goes
\* to the network; when they have the same pairs in the same order, the keys are the
\* same and, with TTL > 0, the second is answered with the first's document.
KeyKeepsOrder ==
    SecondLookedUp =>
        LET a == call.arg.first
            b == call.arg.second
            na == NormalizeParams(a.params)
            nb == NormalizeParams(b.params)
        IN /\ (a.endpoint = b.endpoint /\ {na[i] : i \in 1..Len(na)} = {nb[i] : i \in 1..Len(nb)} /\ na # nb) =>
                  /\ CacheKey(a.endpoint, na) # CacheKey(b.endpoint, nb)
                  /\ call.ret = None
                  /\ \A i \in 1..Len(entries) : entries[i].key # CacheKey(b.endpoint, nb)
           /\ (a.endpoint = b.endpoint /\ na = nb) =>
                  /\ CacheKey(a.endpoint, na) = CacheKey(b.endpoint, nb)
                  /\ ttl > 0 => call.ret = Some(1)

\* C36 witness: with TTL > 0, a web search with s = '1', page = 'true' is cached, and
\* the web search with page = 'true', s = '1' that follows is not answered from it.
KeyKeepsOrderWitness ==
    /\ SecondLookedUp /\ ttl > 0 /\ call.ret = None /\ Len(entries) = 1
    /\ call.arg.second.endpoint = "web"
    /\ call.arg.first.params = <<[key |-> "s", value |-> "1"], [key |-> "page", value |-> "true"]>>
    /\ call.arg.second.params = <<[key |-> "page", value |-> "true"], [key |-> "s", value |-> "1"]>>

\* C37: the outgoing parameters of a search call hold each name once.  The first is the
\* base parameter, `npt` when a page token is given and `s` otherwise; after it come
\* the names of the extra parameters that are not null, in their order, and then
\* `extendedsearch` when the flag is given and no extra parameter has the name.  The
\* value of a name is the one written last: the flag's for `extendedsearch` when the flag
\* is given, else the extra parameter's when one that is not null has the name, else
\* the token or the query; an extra parameter that is null writes nothing.
LastWriteWins ==
    (call.fn = "call_search" /\ call.done) =>
        LET a == call.arg
            ret == call.ret
            extra == NotNoneItems(a.options)
            base == IF NonEmpty(a.page_token)
                    THEN [key |-> "npt", value |-> a.page_token]
                    ELSE [key |-> "s", value |-> a.query]
            flag == a.include_extended
            later == SelectSeq(DictKeys(extra), LAMBDA k : k # base.key)
            last == IF flag # "None" /\ ~DictHas(extra, "extendedsearch")
                    THEN <<"extendedsearch">> ELSE <<>>
        IN /\ \A i, j \in 1..Len(ret) : ret[i].key = ret[j].key => i = j
           /\ DictKeys(ret) = <<base.key>> \o later \o last
           /\ \A i \in 1..Len(ret) :
                  ret[i].value =
                      (IF ret[i].key = "extendedsearch" /\ flag # "None"
                       THEN (IF flag = "True" THEN "true" ELSE "false")
                       ELSE IF DictHas(extra, ret[i].key) THEN DictValue(extra, ret[i].key)
                       ELSE base.value)

\* C37 witness: a web search for "q" with the extra parameters s = "x" and
\* extendedsearch = "x" and the flag True sends s = "x" and extendedsearch = "true".
LastWriteWinsWitness ==
    /\ call.fn = "call_search" /\ call.done /\ call.arg.query = "q" /\ call.arg.page_token = "None"
    /\ call.arg.include_extended = "True"
    /\ call.arg.options = <<[key |-> "s", value |-> "x"],
                            [key |-> "extendedsearch", value |-> "x"]>>
    /\ call.ret = <<[key |-> "s", value |-> "x"], [key |-> "extendedsearch", value |-> "true"]>>

\* C38: the HTTP attempts of a search are all issued through one httpx.AsyncClient
\* instance, and that instance is not closed when an attempt or the search is over, so
\* that the next attempt and the next search find it open.
PoolReused ==
    \A t \in Tasks :
        LET s == search[t]
        IN s.calls >= 1 => (s.clients = 1 /\ s.open)

\* C39 as claimed: every Config that from_env returns satisfies all the rules of
\* validation: whatever the environment holds, from_env raises or returns a Config
\* with a base URL of scheme http or https and a host, timeout > 0, cache TTL >= 0,
\* cache size >= 1, max retries >= 0, 0 < base delay <= max delay and
\* 1 <= keepalive <= pool size.
FromEnvReturnsValid ==
    (call.fn = "from_env" /\ call.done /\ ~call.ret.raised) => Accepts(call.ret.config)

\* C40: the cache key depends only on the endpoint and the normalized parameters, not
\* on the client's configuration: on one cache injected into two clients of different
\* base URL or pass token, both clients compute the same key for the same search, and
\* when the second client makes the search the first made while the first's response
\* is still cached, it is returned the first client's response and makes no HTTP call
\* to its own upstream.
SharedCacheCrosses ==
    (call.fn = "second_client" /\ call.done) =>
        LET a == call.arg.clients[1]
            b == call.arg.clients[2]
            first == call.arg.first
            second == call.arg.second
            identical == /\ first.endpoint = second.endpoint
                         /\ NormalizeParams(first.params) = NormalizeParams(second.params)
        IN /\ ClientCacheKey(a, second.endpoint, NormalizeParams(second.params))
                  = ClientCacheKey(b, second.endpoint, NormalizeParams(second.params))
           /\ (identical /\ call.ret.at < first.at + ttl) =>
                  (call.ret.payload = first.payload /\ call.ret.calls = 0)

\* C40 witness: the second client, of another base URL, made the first client's search
\* and was returned the first upstream's document, which its own upstream does not
\* serve, without an HTTP call.
SharedCacheCrossesWitness ==
    /\ call.fn = "second_client" /\ call.done
    /\ call.arg.clients[1].base_url # call.arg.clients[2].base_url
    /\ call.arg.first.endpoint = call.arg.second.endpoint
    /\ call.arg.first.params = call.arg.second.params
    /\ call.arg.first.calls = 1
    /\ call.ret.calls = 0
    /\ call.ret.payload = UpstreamDoc(call.arg.clients[1].base_url)
    /\ call.ret.payload # UpstreamDoc(call.arg.clients[2].base_url)

====
